---- MODULE Spec2Model ----
(***************************************************************************)
(* A model of the judge-evaluation and comparison engine of the RAG        *)
(* evaluator: AIJudge.judge_response (ai_judge.py), LightRAGEvaluator      *)
(* (evaluate_light.py), EvaluationReportGenerator (report_generator.py)    *)
(* and ConsolePresenter (console_presenter.py), and of the store lookup of  *)
(* file_search_rag.py.                                                     *)
(*                                                                         *)
(* Python values are modelled structurally.  A text is a sequence of       *)
(* characters (one-character strings; a JSON document body is one          *)
(* character-like token between its braces).  A parsed JSON value is a     *)
(* record with a type tag, so that dict / list / number are told apart the *)
(* way isinstance and the `in` operator tell them apart.                   *)
(***************************************************************************)
EXTENDS Integers, Sequences, FiniteSets, TLC

VARIABLES
    entry,              \* which entry point this behaviour exercises
    \* ---- one judge_response call (locals of the executing call) ----
    j_class,            \* "AIJudge" | "LightRAGEvaluator" | "none"
    j_pc,               \* "idle" | "loop" | "returned" | "raised"
    model,              \* model argument as resolved (AIJudge only)
    max_retries,        \* local / parameter max_retries
    attempt,            \* loop variable of: for attempt in range(max_retries)
    retry_delay,        \* local retry_delay
    content,            \* the payload text the last model call delivered
    response_text,      \* local response_text after cleaning
    events,             \* the model calls and sleeps of this call, in order
    j_ret,              \* the value judge_response returned
    \* ---- evaluate_single_question (locals of the executing call) ----
    pc,                 \* where evaluate_single_question stands
    skip_judge,         \* parameter skip_judge
    manual_result,      \* local manual_result (a dict or None)
    file_search_result, \* local file_search_result (a dict or None)
    trace,              \* the stages evaluate_single_question went through
    result,             \* local result: the report handed to save_result
    context_str,        \* local manual_context_str / file_search_context_str
    \* ---- outputs ----
    printed,            \* rows print_score_comparison wrote to the console
    markdown,           \* what the report generator rendered last
    files,              \* artifacts written by save_result
    renders,            \* every output of _generate_markdown_content, with its footer stamp
    \* ---- a second judge_response call on the same object ----
    suspended,          \* the locals of the judge_response call that is not executing
    \* ---- file_search_rag.py ----
    stores,             \* the stores of the service: their display names, in creation order
    store,              \* local store of create_or_get_store / ask_question
    asked               \* the store names the generate_content calls were given

jvars == <<j_class, j_pc, model, max_retries, attempt, retry_delay,
           content, response_text, events, j_ret>>

evars == <<pc, skip_judge, manual_result, file_search_result, trace, result,
           context_str>>

ovars == <<printed, markdown, files, renders>>

cvars == <<suspended>>

svars == <<stores, store, asked>>

others == <<cvars, svars>>

vars == <<entry, jvars, evars, ovars, others>>

(***************************************************************************)
(* Bounds of the model.                                                    *)
(***************************************************************************)
\* largest max_retries argument tried for AIJudge.judge_response
MaxRetriesArg == 4

\* largest number of chunks a pipeline run returns
MaxChunks == 6

\* how many of the highest scores (5, 4, ...) the score grids of the report
\* inputs range over
ScoreSpan == 2

(***************************************************************************)
(* Python string operations on texts (sequences of characters).            *)
(***************************************************************************)
Min(a, b) == IF a < b THEN a ELSE b
Max(a, b) == IF a > b THEN a ELSE b

\* s[a:b] of Python for 0 <= a, any integer b (negative b counts from the end)
PySlice(s, a, b) ==
    LET n  == Len(s)
        lo == Min(a, n)
        hi == IF b < 0 THEN Max(n + b, 0) ELSE Min(b, n)
    IN  IF lo >= hi THEN << >> ELSE SubSeq(s, lo + 1, hi)

\* s[a:] of Python
PyFrom(s, a) == PySlice(s, a, Len(s))

\* s[:-k] of Python, k > 0
PyDropLast(s, k) == PySlice(s, 0, 0 - k)

\* s.startswith(p)
StartsWith(s, p) == Len(s) >= Len(p) /\ SubSeq(s, 1, Len(p)) = p

\* s.endswith(p)
EndsWith(s, p) == Len(s) >= Len(p) /\ SubSeq(s, Len(s) - Len(p) + 1, Len(s)) = p

\* p in s, for strings: p occurs as a substring
Contains(s, p) ==
    \E i \in 0..(Len(s) - Len(p)) : SubSeq(s, i + 1, i + Len(p)) = p

Whitespace == {" ", "\n"}

RECURSIVE LStrip(_)
LStrip(s) == IF s # << >> /\ Head(s) \in Whitespace THEN LStrip(Tail(s)) ELSE s

RECURSIVE RStrip(_)
RStrip(s) ==
    IF s # << >> /\ s[Len(s)] \in Whitespace
    THEN RStrip(SubSeq(s, 1, Len(s) - 1)) ELSE s

\* s.strip()
Strip(s) == RStrip(LStrip(s))

LowerChar(c) ==
    CASE c = "O" -> "o" [] c = "V" -> "v" [] c = "E" -> "e" [] c = "R" -> "r"
      [] c = "L" -> "l" [] c = "A" -> "a" [] c = "D" -> "d" [] c = "U" -> "u"
      [] c = "N" -> "n" [] c = "T" -> "t" [] c = "I" -> "i" [] c = "M" -> "m"
      [] OTHER -> c

\* s.lower()
Lower(s) == [i \in 1..Len(s) |-> LowerChar(s[i])]

(***************************************************************************)
(* Python / JSON values: [k |-> kind, v |-> value].                        *)
(***************************************************************************)
PyNone    == [k |-> "none", v |-> 0]
PyInt(n)  == [k |-> "int",  v |-> n]
PyStr(s)  == [k |-> "str",  v |-> s]
PyList(l) == [k |-> "list", v |-> l]
PyDict(f) == [k |-> "dict", v |-> f]

\* isinstance(x, dict)
IsDict(x) == x.k = "dict"

\* key in d, for a dict d
HasKey(d, key) == key \in DOMAIN d.v

\* the five fixed criteria, in the order the code lists them
criteria == <<"factual_consistency", "instruction_following", "domain_knowledge",
              "context_precision", "context_recall">>

CriteriaSet == {criteria[i] : i \in 1..Len(criteria)}

\* {"score": s, "justification": j}
Criterion(s, j) == PyDict([score |-> PyInt(s), justification |-> PyStr(j)])

\* the record returned when the retry loop is left without a return
\* (ai_judge.py 174-181, evaluate_light.py 210-217)
FailureRecord ==
    PyDict(("error" :> PyStr(<<"Falha apos todas as tentativas">>))
           @@ [c \in CriteriaSet |-> Criterion(0, <<"Erro na avaliacao">>)])

\* {"error": "invalid_json", "raw_response": response_text}  (ai_judge.py 144)
InvalidJsonRecord(text) ==
    PyDict(("error" :> PyStr(<<"invalid_json">>)) @@ ("raw_response" :> PyStr(text)))

(***************************************************************************)
(* The JSON documents the judge model may deliver.  A dict document is     *)
(* written  { body }  where body is one token naming its content.          *)
(***************************************************************************)
\* a well-formed evaluation: the five criteria scored by sc, each justified
Scored(sc) ==
    PyDict(("overall_assessment" :> PyStr(<<"resumo">>))
           @@ [c \in CriteriaSet |-> Criterion(sc[c], <<"porque">>)])

Uniform(n) == [c \in CriteriaSet |-> n]

MixedScores ==
    [c \in CriteriaSet |->
        CASE c = "factual_consistency"   -> 1
          [] c = "instruction_following" -> 5
          [] c = "domain_knowledge"      -> 3
          [] c = "context_precision"     -> 2
          [] c = "context_recall"        -> 4]

\* {"score": "4", ...}: the score delivered as a JSON string
CriterionStr(s, j) == PyDict([score |-> PyStr(s), justification |-> PyStr(j)])

DictBodies == {"all4", "all5", "mixed", "zero", "six", "partial",
               "nojust", "intcrit", "strscore", "noscore", "strone"}

\* the value json.loads gives for the document { body }
DictOf(body) ==
    CASE body = "all4"    -> Scored(Uniform(4))
      [] body = "all5"    -> Scored(Uniform(5))
      [] body = "mixed"   -> Scored(MixedScores)
      \* valid JSON that breaks the rubric: a score of 0, a score of 6
      [] body = "zero"    -> Scored([Uniform(3) EXCEPT !["context_recall"] = 0])
      [] body = "six"     -> Scored([Uniform(3) EXCEPT !["domain_knowledge"] = 6])
      \* valid JSON with only one criterion
      [] body = "partial" -> PyDict("factual_consistency" :> Criterion(4, <<"porque">>))
      \* criteria that are objects without a justification
      [] body = "nojust"  -> PyDict([c \in CriteriaSet |-> PyDict([score |-> PyInt(4)])])
      \* criteria that are bare numbers
      [] body = "intcrit" -> PyDict([c \in CriteriaSet |-> PyInt(4)])
      \* scores that are strings
      [] body = "strscore" ->
            PyDict([c \in CriteriaSet |-> CriterionStr(<<"4">>, <<"porque">>)])
      \* one criterion only, an object without a score
      [] body = "noscore" ->
            PyDict("factual_consistency" :> PyDict([justification |-> PyStr(<<"porque">>)]))
      \* one criterion only, its score a string
      [] body = "strone" ->
            PyDict("factual_consistency" :> CriterionStr(<<"4">>, <<"porque">>))

\* what json.loads(s) does: [ok |-> parsed?, value |-> the parsed value]
json_loads(s) ==
    LET t == Strip(s)
    IN  IF Len(t) = 3 /\ t[1] = "{" /\ t[3] = "}" /\ t[2] \in DictBodies
        THEN [ok |-> TRUE, value |-> DictOf(t[2])]
        ELSE IF t = <<"[", "]">>
        THEN [ok |-> TRUE, value |-> PyList(<< >>)]
        ELSE [ok |-> FALSE, value |-> PyNone]

\* the backquote character (the string syntax of TLA+ has none)
Backquote == "BACKQUOTE"

\* the fence marker: three backquotes
Fence     == <<Backquote, Backquote, Backquote>>
JsonFence == Fence \o <<"j", "s", "o", "n">>

\* the texts a model call may deliver as message content
Doc(body) == <<"{", body, "}">>

FencedTexts(doc) ==
    { doc,
      <<" ">> \o doc \o <<"\n">>,
      JsonFence \o <<"\n">> \o doc \o <<"\n">> \o Fence,
      Fence \o <<"\n">> \o doc \o <<"\n">> \o Fence,
      JsonFence \o <<"\n">> \o doc,
      Fence \o <<"\n">> \o doc,
      doc \o <<"\n">> \o Fence }

ProseTexts ==
    { << >>,
      <<"S", "o", "r", "r", "y">>,
      <<"{", "all4">>,
      JsonFence \o <<"\n">> \o <<"n", "o">> \o <<"\n">> \o Fence }

ResponseTexts ==
    FencedTexts(Doc("all4")) \cup {Doc(b) : b \in DictBodies}
        \cup {<<"[", "]">>} \cup ProseTexts

\* message.content / response.text: a str or None
Contents ==
    {[none |-> FALSE, s |-> t] : t \in ResponseTexts} \cup {[none |-> TRUE, s |-> << >>]}

\* (content or "")
OrEmpty(c) == IF c.none THEN << >> ELSE c.s

(***************************************************************************)
(* Failures of a model call: the text of the exception.                    *)
(***************************************************************************)
Msg503        == <<"5", "0", "3", " ", "U", "N", "A", "V", "A", "I", "L">>
MsgOverloaded == <<"m", "o", "d", "e", "l", " ", "O", "v", "e", "r", "l", "o", "a", "d", "e", "d">>
MsgOVERLOADED == <<"O", "V", "E", "R", "L", "O", "A", "D", "E", "D">>
Msg401        == <<"4", "0", "1", " ", "k", "e", "y">>
Msg50x3       == <<"5", "0", " ", "3">>
MsgOverload   == <<"o", "v", "e", "r", "l", "o", "a", "d">>

ErrorMessages == {Msg503, MsgOverloaded, MsgOVERLOADED, Msg401, Msg50x3, MsgOverload}

\* str(JSONDecodeError): "...: line 1 column c (char n)"; the position depends on
\* the length of the real text, so both a plain one and one showing 503 occur
MsgDecode0   == <<"c", "h", "a", "r", " ", "0">>
MsgDecode503 == <<"c", "h", "a", "r", " ", "5", "0", "3">>

DecodeErrorMessages == {MsgDecode0, MsgDecode503}

\* a looser test: any text with "50" or "overload" counts as an overload
IsOverloaded_loose(err) ==
    \/ Contains(err, <<"5", "0">>)
    \/ Contains(Lower(err), <<"o", "v", "e", "r", "l", "o", "a", "d">>)

\* '503' in err or 'overloaded' in err.lower()
\* (ai_judge.py 149, 164; evaluate_light.py 198)
IsOverloaded(err) ==
    \/ Contains(err, <<"5", "0", "3">>)
    \/ Contains(Lower(err), <<"o", "v", "e", "r", "l", "o", "a", "d", "e", "d">>)

(***************************************************************************)
(* The events of one judge_response call: its model calls and its sleeps.  *)
(* A call event keeps how the call ended (out) and, for a failure, the     *)
(* text of the exception (msg).                                            *)
(***************************************************************************)
CallEvent(out, msg) == [e |-> "call", out |-> out, msg |-> msg, d |-> 0]
SleepEvent(d)       == [e |-> "sleep", out |-> "-", msg |-> << >>, d |-> d]

NoText == << >>

\* retry_delay = 5  (ai_judge.py 109, evaluate_light.py 171)
InitialRetryDelay == 5

\* max_retries = 3  (evaluate_light.py 170; default of ai_judge.py 91)
LightMaxRetries == 3

\* a backoff that does not grow
NextRetryDelay_constant(d) == d

\* a delay that triples after every sleep
NextRetryDelay_tripled(d) == d * 3

\* retry_delay *= 2  (ai_judge.py 153, 168; evaluate_light.py 202)
NextRetryDelay(d) == d * 2

\* a retry test that always sees an attempt left
HasAttemptLeft_always(att, mr) == TRUE

\* a retry test that gives up one attempt early
HasAttemptLeft_short(att, mr) == att < mr - 2

\* attempt < max_retries - 1  (ai_judge.py 150, 165; evaluate_light.py 199)
HasAttemptLeft(att, mr) == att < mr - 1

(***************************************************************************)
(* AIJudge.judge_response  (ai_judge.py 83-181)                            *)
(***************************************************************************)
\* strip the content, then the code fences  (ai_judge.py 124-134)
AIJudge_clean(c) ==
    LET t0 == Strip(OrEmpty(c))
    IN  IF StartsWith(t0, JsonFence)
        THEN LET t1 == PyFrom(t0, 7)
             IN  IF EndsWith(t1, Fence) THEN PyDropLast(t1, 3) ELSE t1
        ELSE IF StartsWith(t0, Fence)
        THEN LET t1 == PyFrom(t0, 3)
             IN  IF EndsWith(t1, Fence) THEN PyDropLast(t1, 3) ELSE t1
        ELSE t0

\* a parse failure reported as the generic failure of the retry loop
AIJudge_parse_generic(text) ==
    IF json_loads(text).ok THEN json_loads(text).value ELSE FailureRecord

\* try: return json.loads(response_text)
\* except json.JSONDecodeError: return {"error": "invalid_json", ...}
\* (ai_judge.py 136-144)
AIJudge_parse(text) ==
    IF json_loads(text).ok THEN json_loads(text).value ELSE InvalidJsonRecord(text)

\* the values of a setting that may be missing: None (written "None"), the
\* empty string, a model name
ConfigModels == {"None", "", "config-model"}
EnvModels    == {"None", "", "env-model"}

\* a default that falls back to a built-in model name
default_model_builtin(cfg, env) ==
    IF cfg \notin {"None", ""} THEN cfg
    ELSE IF env # "None" THEN env ELSE "builtin-model"

\* self.config.get("ai_judge_model") or os.getenv("AI_JUDGE_MODEL")
\* (ai_judge.py 45-46): the configured value when it is truthy, else the
\* variable of the environment, None when that is unset
default_model(cfg, env) == IF cfg \notin {"None", ""} THEN cfg ELSE env

\* model = model or self._default_model(); ValueError when there is none;
\* prompt, retry_delay = 5, and the loop is entered  (ai_judge.py 96-111)
AIJudge_judge_response(m, dflt, mr) ==
    /\ entry = "AIJudge"
    /\ j_pc = "idle"
    /\ j_class' = "AIJudge"
    /\ model' = IF m = "None" THEN dflt ELSE m
    /\ max_retries' = mr
    /\ IF model' = "None"
       THEN /\ j_pc' = "raised"
            /\ UNCHANGED <<attempt, retry_delay>>
       ELSE /\ j_pc' = "loop"
            /\ attempt' = 0
            /\ retry_delay' = InitialRetryDelay
    /\ UNCHANGED <<entry, others, content, response_text, events, j_ret, evars, ovars>>

\* completion(...) returns: clean the payload, parse it, return
\* (ai_judge.py 114-144)
AIJudge_completion_returns(c) ==
    /\ j_class = "AIJudge"
    /\ j_pc = "loop"
    /\ content' = c
    /\ response_text' = AIJudge_clean(c)
    /\ j_ret' = AIJudge_parse(response_text')
    /\ events' = Append(events,
            CallEvent(IF json_loads(response_text').ok THEN "json" ELSE "invalid_json",
                      NoText))
    /\ j_pc' = "returned"
    /\ UNCHANGED <<entry, others, j_class, model, max_retries, attempt, retry_delay, evars, ovars>>

\* time.sleep(retry_delay); retry_delay *= 2; continue: the for statement
\* takes the next attempt, or ends and the failure record is returned
AIJudge_sleep_and_continue(err) ==
    /\ events' = events \o <<CallEvent("raised", err), SleepEvent(retry_delay)>>
    /\ retry_delay' = NextRetryDelay(retry_delay)
    /\ attempt' = attempt + 1
    /\ IF attempt + 1 < max_retries
       THEN UNCHANGED <<j_pc, j_ret>>
       ELSE j_pc' = "returned" /\ j_ret' = FailureRecord

\* break, then the return after the loop  (ai_judge.py 173-181)
AIJudge_break(err) ==
    /\ events' = Append(events, CallEvent("raised", err))
    /\ j_ret' = FailureRecord
    /\ j_pc' = "returned"
    /\ UNCHANGED <<attempt, retry_delay>>

\* except OpenAIError  (ai_judge.py 146-159)
AIJudge_except_OpenAIError(err) ==
    /\ j_class = "AIJudge"
    /\ j_pc = "loop"
    /\ IF IsOverloaded(err)
       THEN IF HasAttemptLeft(attempt, max_retries)
            THEN AIJudge_sleep_and_continue(err)
            ELSE AIJudge_break(err)
       ELSE AIJudge_break(err)
    /\ UNCHANGED <<entry, others, j_class, model, max_retries, content, response_text, evars, ovars>>

\* except Exception  (ai_judge.py 161-171)
AIJudge_except_Exception(err) ==
    /\ j_class = "AIJudge"
    /\ j_pc = "loop"
    /\ IF IsOverloaded(err) /\ HasAttemptLeft(attempt, max_retries)
       THEN AIJudge_sleep_and_continue(err)
       ELSE AIJudge_break(err)
    /\ UNCHANGED <<entry, others, j_class, model, max_retries, content, response_text, evars, ovars>>

(***************************************************************************)
(* LightRAGEvaluator.judge_response  (evaluate_light.py 164-217)           *)
(***************************************************************************)
\* strip the text, then cut the fences  (evaluate_light.py 183-189)
Light_clean(c) ==
    LET t0 == Strip(OrEmpty(c))
    IN  IF StartsWith(t0, JsonFence) THEN PySlice(t0, 7, 0 - 3)
        ELSE IF StartsWith(t0, Fence) THEN PySlice(t0, 3, 0 - 3)
        ELSE t0

\* the locals of a fresh call  (evaluate_light.py 166-173)
Light_enter ==
    /\ j_class' = "LightRAGEvaluator"
    /\ j_pc' = "loop"
    /\ max_retries' = LightMaxRetries
    /\ retry_delay' = InitialRetryDelay
    /\ attempt' = 0
    /\ events' = << >>
    /\ j_ret' = PyNone
    /\ UNCHANGED <<model, content, response_text>>

\* judge_response called on its own
Light_judge_response ==
    /\ entry = "LightRAGEvaluator"
    /\ j_pc = "idle"
    /\ Light_enter
    /\ UNCHANGED <<entry, others, evars, ovars>>

\* the except clause  (evaluate_light.py 195-207): sleep and continue on an
\* overload with an attempt left; otherwise log, and the loop goes on
\* to its next iteration; after the last one the failure record is returned
Light_except(ev, err) ==
    /\ IF IsOverloaded(err) /\ HasAttemptLeft(attempt, max_retries)
       THEN /\ events' = events \o <<ev, SleepEvent(retry_delay)>>
            /\ retry_delay' = NextRetryDelay(retry_delay)
       ELSE /\ events' = Append(events, ev)
            /\ UNCHANGED retry_delay
    /\ attempt' = attempt + 1
    /\ IF attempt + 1 < max_retries
       THEN UNCHANGED <<j_pc, j_ret>>
       ELSE j_pc' = "returned" /\ j_ret' = FailureRecord

\* generate_content(...) returns  (evaluate_light.py 175-193); a payload
\* json.loads rejects raises JSONDecodeError, whose text is derr, into the
\* except clause
Light_generate_content_returns(c, derr) ==
    /\ j_class = "LightRAGEvaluator"
    /\ j_pc = "loop"
    /\ content' = c
    /\ response_text' = Light_clean(c)
    /\ IF json_loads(response_text').ok
       THEN /\ j_ret' = json_loads(response_text').value
            /\ j_pc' = "returned"
            /\ events' = Append(events, CallEvent("json", NoText))
            /\ UNCHANGED <<attempt, retry_delay>>
       ELSE Light_except(CallEvent("invalid_json", derr), derr)
    /\ UNCHANGED <<entry, others, j_class, model, max_retries, evars, ovars>>

\* generate_content(...) raises  (evaluate_light.py 175, 195-207)
Light_generate_content_raises(err) ==
    /\ j_class = "LightRAGEvaluator"
    /\ j_pc = "loop"
    /\ Light_except(CallEvent("raised", err), err)
    /\ UNCHANGED <<entry, others, j_class, model, max_retries, content, response_text, evars, ovars>>

(***************************************************************************)
(* The state in which nothing is executing yet.                            *)
(***************************************************************************)
NoContent == [none |-> TRUE, s |-> << >>]

JudgeIdle ==
    /\ j_class = "none"
    /\ j_pc = "idle"
    /\ model = "None"
    /\ max_retries = 0
    /\ attempt = 0
    /\ retry_delay = 0
    /\ content = NoContent
    /\ response_text = << >>
    /\ events = << >>
    /\ j_ret = PyNone

\* no evaluate_single_question call is executing
EvaluatorIdle ==
    /\ pc = "idle"
    /\ skip_judge = FALSE
    /\ manual_result = PyNone
    /\ file_search_result = PyNone
    /\ trace = << >>
    /\ result = PyNone
    /\ context_str = << >>

NoMarkdown == [rendered |-> FALSE]

NoFiles == [json |-> FALSE, md |-> FALSE]

\* the locals of a judge_response call
Locals == [j_class |-> j_class, j_pc |-> j_pc, model |-> model,
           max_retries |-> max_retries, attempt |-> attempt,
           retry_delay |-> retry_delay, content |-> content,
           response_text |-> response_text, events |-> events, j_ret |-> j_ret]

\* the locals of a call that has not begun
IdleLocals == [j_class |-> "none", j_pc |-> "idle", model |-> "None",
               max_retries |-> 0, attempt |-> 0, retry_delay |-> 0,
               content |-> NoContent, response_text |-> << >>,
               events |-> << >>, j_ret |-> PyNone]

\* no second judge_response call
NoOtherCall == suspended = IdleLocals

\* the store that is no store: None
NoStore == 0

\* file_search_rag.py is not used
NoStores ==
    /\ stores = << >>
    /\ store = NoStore
    /\ asked = << >>

\* nothing printed, rendered or written yet
OutputsEmpty ==
    /\ printed = << >>
    /\ markdown = NoMarkdown
    /\ files = NoFiles
    /\ renders = << >>

(***************************************************************************)
(* Python operations that may raise, on the values of an evaluation.       *)
(***************************************************************************)
\* key in x: a TypeError unless x is a dict, a list or a str
InRaises(x) == x.k \notin {"dict", "list", "str"}

\* the value of: key in x
In(key, x) ==
    CASE x.k = "dict" -> HasKey(x, key)
      [] x.k = "list" -> \E i \in 1..Len(x.v) : x.v[i] = PyStr(<<key>>)
      [] x.k = "str"  -> Contains(x.v, <<key>>)
      [] OTHER        -> FALSE

\* x[key] raises: x is no dict, or has no such key
SubscriptRaises(x, key) == ~(IsDict(x) /\ HasKey(x, key))

IsNumber(x) == x.k \in {"int", "float"}

\* f_score - m_score raises a TypeError unless both are numbers
SubtractRaises(f_score, m_score) == ~(IsNumber(f_score) /\ IsNumber(m_score))

\* d.get(key, default)
Get(d, key, default) == IF HasKey(d, key) THEN d.v[key] ELSE default

EmptyDict == PyDict(<< >>)

\* rag_result.get('evaluation', {})
EvaluationOf(rag_result) == Get(rag_result, "evaluation", EmptyDict)

\* f"+{diff:.1f}" if diff > 0 else f"{diff:.1f}": the sign printed and the digits
FormatDiff(diff) ==
    [sign   |-> IF diff > 0 THEN "+" ELSE IF diff < 0 THEN "-" ELSE "",
     digits |-> IF diff < 0 THEN 0 - diff ELSE diff]

(***************************************************************************)
(* EvaluationReportGenerator  (report_generator.py)                        *)
(***************************************************************************)
\* a difference taken the other way round
Report_diff_swapped(m_score, f_score) == m_score - f_score

\* diff = f_score - m_score  (report_generator.py 213)
Report_diff(m_score, f_score) == f_score - m_score

\* a tally that gives ties to the manual pipeline
Report_winner_ties_to_manual(m_score, f_score) ==
    IF m_score >= f_score THEN "manual" ELSE "file_search"

\* the if / elif / else of _build_winner_summary  (report_generator.py 243-251)
Report_winner(m_score, f_score) ==
    IF m_score > f_score THEN "manual"
    ELSE IF f_score > m_score THEN "file_search"
    ELSE "tie"

\* the criteria both evaluations hold as dicts, in the order of the list
\* (report_generator.py 207-209, 236-238)
Report_common(manual_eval, file_eval) ==
    SelectSeq(criteria, LAMBDA c :
        /\ HasKey(manual_eval, c) /\ IsDict(manual_eval.v[c])
        /\ HasKey(file_eval, c) /\ IsDict(file_eval.v[c]))

\* evaluation[criterion].get('score', 0)  (report_generator.py 211-212, 240-241)
Report_score(evaluation, c) == Get(evaluation.v[c], "score", PyInt(0))

\* a table row or a tally raises when the scores are not numbers
Report_scores_raise(manual_eval, file_eval) ==
    \E i \in 1..Len(Report_common(manual_eval, file_eval)) :
        LET c == Report_common(manual_eval, file_eval)[i]
        IN  SubtractRaises(Report_score(file_eval, c), Report_score(manual_eval, c))

\* the rows of the comparison table  (report_generator.py 207-217)
Report_rows(manual_eval, file_eval) ==
    LET cs == Report_common(manual_eval, file_eval)
    IN  [i \in 1..Len(cs) |->
            LET m_score == Report_score(manual_eval, cs[i]).v
                f_score == Report_score(file_eval, cs[i]).v
            IN  [criterion |-> cs[i],
                 m_score   |-> m_score,
                 f_score   |-> f_score,
                 diff      |-> Report_diff(m_score, f_score),
                 diff_str  |-> FormatDiff(Report_diff(m_score, f_score))]]

\* _build_winner_summary  (report_generator.py 227-258)
build_winner_summary(manual_eval, file_eval) ==
    LET cs == Report_common(manual_eval, file_eval)
        won == [i \in 1..Len(cs) |->
                    Report_winner(Report_score(manual_eval, cs[i]).v,
                                  Report_score(file_eval, cs[i]).v)]
    IN  [lines            |-> [i \in 1..Len(cs) |-> [criterion |-> cs[i], winner |-> won[i]]],
         manual_wins      |-> Cardinality({i \in 1..Len(cs) : won[i] = "manual"}),
         file_search_wins |-> Cardinality({i \in 1..Len(cs) : won[i] = "file_search"}),
         ties             |-> Cardinality({i \in 1..Len(cs) : won[i] = "tie"})]

RECURSIVE SumLen(_)
SumLen(chunks) ==
    IF chunks = << >> THEN 0 ELSE Len(Head(chunks).v) + SumLen(Tail(chunks))

\* rag_result.get('context', [])[:5]
FirstFive(rag_result) == PySlice(Get(rag_result, "context", PyList(<< >>)).v, 0, 5)

\* _build_chunk_analysis  (report_generator.py 260-280)
build_chunk_analysis(manual, file_search) ==
    LET manual_chunks      == FirstFive(manual)
        file_search_chunks == FirstFive(file_search)
    IN  [manual_chunks      |-> Len(manual_chunks),
         file_search_chunks |-> Len(file_search_chunks),
         manual_chars       |-> SumLen(manual_chunks),
         file_search_chars  |-> SumLen(file_search_chunks),
         manual_avg         |-> SumLen(manual_chunks) \div Max(Len(manual_chunks), 1),
         file_avg           |-> SumLen(file_search_chunks) \div Max(Len(file_search_chunks), 1),
         diff_chars         |-> SumLen(file_search_chunks) - SumLen(manual_chunks)]

NoWinnerSummary == [lines |-> << >>, manual_wins |-> 0, file_search_wins |-> 0, ties |-> 0]

\* the empty string _build_comparison_section returns  (report_generator.py 190)
EmptyComparison ==
    [text |-> "", rows |-> << >>, winner |-> NoWinnerSummary, chunks |-> << >>]

\* _build_comparison_section  (report_generator.py 181-225), when it returns
build_comparison_section(manual, file_search) ==
    LET manual_eval == EvaluationOf(manual)
        file_eval   == EvaluationOf(file_search)
    IN  IF In("error", manual_eval) \/ In("error", file_eval)
        THEN EmptyComparison
        ELSE [text   |-> "comparison",
              rows   |-> Report_rows(manual_eval, file_eval),
              winner |-> build_winner_summary(manual_eval, file_eval),
              chunks |-> <<build_chunk_analysis(manual, file_search)>>]

\* _build_comparison_section raises instead of returning
build_comparison_section_raises(manual, file_search) ==
    LET manual_eval == EvaluationOf(manual)
        file_eval   == EvaluationOf(file_search)
    IN  /\ ~(In("error", manual_eval) \/ In("error", file_eval))
        /\ Report_scores_raise(manual_eval, file_eval)

\* _build_judge_evaluation_table  (report_generator.py 156-179)
build_judge_evaluation_table(evaluation) ==
    LET cs == SelectSeq(criteria, LAMBDA c :
                  HasKey(evaluation, c) /\ IsDict(evaluation.v[c]))
    IN  [rows    |-> [i \in 1..Len(cs) |->
                        [criterion |-> cs[i],
                         has_score |-> HasKey(evaluation.v[cs[i]], "score"),
                         has_justification |-> HasKey(evaluation.v[cs[i]], "justification")]],
         overall |-> HasKey(evaluation, "overall_assessment")]

\* _build_rag_section  (report_generator.py 134-154)
build_rag_section(rag_result, rag_type) ==
    [section       |-> rag_type,
     latency_label |-> IF rag_type = "file_search" THEN "Latencia (TTFT)" ELSE "Latencia",
     num_chunks    |-> Get(rag_result, "num_chunks", PyInt(0)),
     answer        |-> Get(rag_result, "answer", PyStr(<<"N/A">>)),
     table         |-> IF HasKey(rag_result, "evaluation")
                          /\ ~In("error", rag_result.v["evaluation"])
                       THEN <<build_judge_evaluation_table(rag_result.v["evaluation"])>>
                       ELSE << >>]

\* Python truth of a pipeline result: None and the empty dict are false
Truthy(x) == ~(x.k = "none" \/ (x.k = "dict" /\ DOMAIN x.v = {}))

\* datetime.now().strftime('%d/%m/%Y %H:%M:%S') of _build_footer
\* (report_generator.py 284): the second in which a rendering happens; the
\* first rendering of a behaviour happens in the second FirstStamp
FooterStamps == {"t1", "t2"}
FirstStamp   == "t1"

\* one output of _generate_markdown_content: the sections, and the footer stamp
Rendering(sections, now) == [content |-> sections, footer |-> now]

\* a rendering that takes the pipeline results out of the report it is given
Report_after_render_popped(res) == PyDict(("manual_rag" :> PyNone) @@ res.v)

\* the report after _generate_markdown_content(result) has returned: the
\* function only reads it  (report_generator.py 85-112)
Report_after_render(res) == res

\* a rendering that appends the file-search section before the manual one
generate_markdown_content_file_search_first(res) ==
    LET manual      == Get(res, "manual_rag", PyNone)
        file_search == Get(res, "file_search_rag", PyNone)
    IN  [rendered |-> TRUE,
         order    |-> <<"header", "question">>
                      \o (IF Truthy(file_search) THEN <<"file_search">> ELSE << >>)
                      \o (IF Truthy(manual) THEN <<"manual">> ELSE << >>)
                      \o (IF Truthy(manual) /\ Truthy(file_search)
                          THEN <<"comparison">> ELSE << >>)
                      \o <<"footer">>,
         manual      |-> IF Truthy(manual)
                         THEN <<build_rag_section(manual, "manual")>> ELSE << >>,
         file_search |-> IF Truthy(file_search)
                         THEN <<build_rag_section(file_search, "file_search")>> ELSE << >>,
         comparison  |-> IF Truthy(manual) /\ Truthy(file_search)
                         THEN <<build_comparison_section(manual, file_search)>>
                         ELSE << >>]

\* _generate_markdown_content  (report_generator.py 85-112), when it returns:
\* the sections in the order they are appended
generate_markdown_content(res) ==
    LET manual      == Get(res, "manual_rag", PyNone)
        file_search == Get(res, "file_search_rag", PyNone)
    IN  [rendered |-> TRUE,
         order    |-> <<"header", "question">>
                      \o (IF Truthy(manual) THEN <<"manual">> ELSE << >>)
                      \o (IF Truthy(file_search) THEN <<"file_search">> ELSE << >>)
                      \o (IF Truthy(manual) /\ Truthy(file_search)
                          THEN <<"comparison">> ELSE << >>)
                      \o <<"footer">>,
         manual      |-> IF Truthy(manual)
                         THEN <<build_rag_section(manual, "manual")>> ELSE << >>,
         file_search |-> IF Truthy(file_search)
                         THEN <<build_rag_section(file_search, "file_search")>> ELSE << >>,
         comparison  |-> IF Truthy(manual) /\ Truthy(file_search)
                         THEN <<build_comparison_section(manual, file_search)>>
                         ELSE << >>]

\* _generate_markdown_content raises
generate_markdown_content_raises(res) ==
    LET manual      == Get(res, "manual_rag", PyNone)
        file_search == Get(res, "file_search_rag", PyNone)
    IN  /\ Truthy(manual)
        /\ Truthy(file_search)
        /\ build_comparison_section_raises(manual, file_search)

(***************************************************************************)
(* ConsolePresenter  (console_presenter.py)                                *)
(***************************************************************************)
\* s.count(p) for a non-empty p: the occurrences of p in s that do not overlap
RECURSIVE PyCount(_, _)
PyCount(s, p) ==
    IF Len(s) < Len(p) THEN 0
    ELSE IF StartsWith(s, p) THEN 1 + PyCount(PyFrom(s, Len(p)), p)
    ELSE PyCount(Tail(s), p)

\* "--- CHUNK SEPARATOR ---"  (console_presenter.py 90)
SeparatorMarker == <<"--- CHUNK SEPARATOR ---">>

\* num_chunks = context_str.count("--- CHUNK SEPARATOR ---") + 1: the number
\* print_judge_info prints  (console_presenter.py 83-92)
print_judge_info(ctx) == PyCount(ctx, SeparatorMarker) + 1

\* print_judge_evaluation raises  (console_presenter.py 103-112)
print_judge_evaluation_raises(evaluation) ==
    IF InRaises(evaluation) THEN TRUE
    ELSE IF In("error", evaluation) THEN FALSE
    ELSE IF ~IsDict(evaluation) THEN TRUE
    ELSE \E key \in DOMAIN evaluation.v :
            /\ IsDict(evaluation.v[key])
            /\ HasKey(evaluation.v[key], "score")
            /\ ~HasKey(evaluation.v[key], "justification")

\* diff = f_score - m_score  (console_presenter.py 156)
Console_diff(m_score, f_score) == f_score - m_score

\* the condition of the loop body  (console_presenter.py 151-152), with the
\* short circuit of `and`: [raises, holds]
Console_condition(manual_eval, file_eval, c) ==
    IF ~HasKey(manual_eval, c) THEN [raises |-> FALSE, holds |-> FALSE]
    ELSE IF InRaises(manual_eval.v[c]) THEN [raises |-> TRUE, holds |-> FALSE]
    ELSE IF ~In("score", manual_eval.v[c]) THEN [raises |-> FALSE, holds |-> FALSE]
    ELSE IF ~HasKey(file_eval, c) THEN [raises |-> FALSE, holds |-> FALSE]
    ELSE IF InRaises(file_eval.v[c]) THEN [raises |-> TRUE, holds |-> FALSE]
    ELSE [raises |-> FALSE, holds |-> In("score", file_eval.v[c])]

\* the loop body raises after its condition held  (console_presenter.py 154-157)
Console_body_raises(manual_eval, file_eval, c) ==
    \/ SubscriptRaises(manual_eval.v[c], "score")
    \/ SubscriptRaises(file_eval.v[c], "score")
    \/ SubtractRaises(file_eval.v[c].v["score"], manual_eval.v[c].v["score"])

Console_row(manual_eval, file_eval, c) ==
    LET m_score == manual_eval.v[c].v["score"].v
        f_score == file_eval.v[c].v["score"].v
    IN  [criterion |-> c,
         m_score   |-> m_score,
         f_score   |-> f_score,
         diff      |-> Console_diff(m_score, f_score),
         diff_str  |-> FormatDiff(Console_diff(m_score, f_score))]

\* the loop of print_score_comparison from criterion i on
\* (console_presenter.py 150-159): the rows printed, and whether it raised
RECURSIVE Console_loop(_, _, _)
Console_loop(manual_eval, file_eval, i) ==
    IF i > Len(criteria) THEN [raised |-> FALSE, rows |-> << >>]
    ELSE LET c    == criteria[i]
             cond == Console_condition(manual_eval, file_eval, c)
         IN  IF cond.raises THEN [raised |-> TRUE, rows |-> << >>]
             ELSE IF ~cond.holds THEN Console_loop(manual_eval, file_eval, i + 1)
             ELSE IF Console_body_raises(manual_eval, file_eval, c)
             THEN [raised |-> TRUE, rows |-> << >>]
             ELSE LET rest == Console_loop(manual_eval, file_eval, i + 1)
                  IN  [raised |-> rest.raised,
                       rows   |-> <<Console_row(manual_eval, file_eval, c)>> \o rest.rows]

\* print_score_comparison  (console_presenter.py 133-159)
print_score_comparison(manual, file_search) ==
    Console_loop(EvaluationOf(manual), EvaluationOf(file_search), 1)


(***************************************************************************)
(* LightRAGEvaluator.evaluate_single_question  (evaluate_light.py 219-315) *)
(***************************************************************************)
ChunkNames == <<"c1", "c2", "c3", "c4", "c5", "c6", "c7", "c8">>

\* the n chunks a retrieval returns, in rank order
Chunks(n) == [i \in 1..n |-> PyStr(<<ChunkNames[i]>>)]

\* "\n\n--- CHUNK SEPARATOR ---\n\n"  (evaluate_light.py 244, 279)
ChunkSeparator == <<"\n", "\n", "--- CHUNK SEPARATOR ---", "\n", "\n">>

\* sep.join(xs) for a list of str
RECURSIVE Join(_, _)
Join(sep, xs) ==
    IF xs = << >> THEN << >>
    ELSE IF Len(xs) = 1 THEN xs[1].v
    ELSE xs[1].v \o sep \o Join(sep, Tail(xs))

\* a context string made of every retrieved chunk
ContextString_all(rag_result) == Join(ChunkSeparator, rag_result.v["context"].v)

\* "...".join(rag_result['context'][:5])  (evaluate_light.py 244, 279)
ContextString(rag_result) ==
    Join(ChunkSeparator, PySlice(rag_result.v["context"].v, 0, 5))

\* d[key] = value
SetItem(d, key, value) == PyDict((key :> value) @@ d.v)

\* the dict run_manual_rag returns  (evaluate_light.py 98-103)
ManualRagResult(chunks) ==
    PyDict([answer     |-> PyStr(<<"resposta manual">>),
            context    |-> PyList(chunks),
            latency    |-> [k |-> "float", v |-> 2],
            num_chunks |-> PyInt(Len(chunks))])

\* the dict run_file_search_rag returns  (evaluate_light.py 124-130)
FileSearchRagResult(chunks) ==
    PyDict([answer     |-> PyStr(<<"resposta file search">>),
            context    |-> PyList(chunks),
            latency    |-> [k |-> "float", v |-> 1],
            num_chunks |-> PyInt(Len(chunks)),
            grounding_info |->
                IF chunks = << >> THEN PyNone
                ELSE PyDict([num_chunks |-> PyInt(Len(chunks)),
                             has_grounding |-> [k |-> "bool", v |-> TRUE]])])

\* the dict built at evaluate_light.py 303-310
QuestionReport(manual, file_search) ==
    PyDict([question_id     |-> PyInt(1),
            question        |-> PyStr(<<"X?">>),
            category        |-> PyStr(<<"constitutional">>),
            timestamp       |-> PyStr(<<"2025-01-01T00:00:00">>),
            manual_rag      |-> manual,
            file_search_rag |-> file_search])

\* the locals of the judge call are gone once it has returned
JudgeForgotten ==
    /\ j_class' = "none"
    /\ j_pc' = "idle"
    /\ max_retries' = 0
    /\ attempt' = 0
    /\ retry_delay' = 0
    /\ content' = NoContent
    /\ response_text' = << >>
    /\ events' = << >>
    /\ j_ret' = PyNone
    /\ UNCHANGED model

\* the question lookup and the header  (evaluate_light.py 223-232)
evaluate_single_question(found, skip) ==
    /\ entry = "evaluate_single_question"
    /\ pc = "idle"
    /\ skip_judge' = skip
    /\ IF found
       THEN pc' = "manual" /\ trace' = << >>
       ELSE pc' = "done" /\ trace' = <<"not_found">>
    /\ UNCHANGED <<entry, others, jvars, manual_result, file_search_result, result,
                   context_str, ovars>>

\* one try block around both pipelines: a failure of the manual run skips the
\* file-search pipeline
run_manual_rag_raises_global_try ==
    /\ pc = "manual"
    /\ manual_result' = PyNone
    /\ trace' = Append(trace, "manual_run_raised")
    /\ pc' = "compare"
    /\ UNCHANGED <<entry, others, jvars, skip_judge, file_search_result, result,
                   context_str, ovars>>

\* run_manual_rag raises: the except clause of the manual block
\* (evaluate_light.py 236-237, 257-259)
run_manual_rag_raises ==
    /\ pc = "manual"
    /\ manual_result' = PyNone
    /\ trace' = Append(trace, "manual_run_raised")
    /\ pc' = "wait"
    /\ UNCHANGED <<entry, others, jvars, skip_judge, file_search_result, result,
                   context_str, ovars>>

\* a manual block that calls the judge whatever the skip-judge flag says
run_manual_rag_returns_always_judges(n) ==
    /\ pc = "manual"
    /\ manual_result' = ManualRagResult(Chunks(n))
    /\ trace' = Append(trace, "manual_run")
    /\ pc' = "manual_judge"
    /\ context_str' = ContextString(manual_result')
    /\ Light_enter
    /\ UNCHANGED <<entry, others, skip_judge, file_search_result, result, ovars>>

\* run_manual_rag returns n chunks; with judging, the context string is built
\* and judge_response is called  (evaluate_light.py 237-252)
run_manual_rag_returns(n) ==
    /\ pc = "manual"
    /\ manual_result' = ManualRagResult(Chunks(n))
    /\ trace' = Append(trace, "manual_run")
    /\ IF skip_judge
       THEN /\ pc' = "wait"
            /\ UNCHANGED <<jvars, context_str>>
       ELSE /\ pc' = "manual_judge"
            /\ context_str' = ContextString(manual_result')
            /\ Light_enter
    /\ UNCHANGED <<entry, others, skip_judge, file_search_result, result, ovars>>

\* judge_response has returned: the evaluation is attached and displayed; an
\* exception of the display lands in the except clause of the manual block
\* (evaluate_light.py 253-259)
manual_judged ==
    /\ pc = "manual_judge"
    /\ j_pc = "returned"
    /\ IF print_judge_evaluation_raises(j_ret)
       THEN /\ manual_result' = PyNone
            /\ trace' = trace \o <<"manual_judge", "manual_display_raised">>
       ELSE /\ manual_result' = SetItem(manual_result, "evaluation", j_ret)
            /\ trace' = Append(trace, "manual_judge")
    /\ pc' = "wait"
    /\ JudgeForgotten
    /\ UNCHANGED <<entry, others, skip_judge, file_search_result, result, context_str, ovars>>

\* a manual stage that goes on to the file-search pipeline without sleeping
wait_before_file_search_no_sleep ==
    /\ pc = "wait"
    /\ pc' = "file_search"
    /\ UNCHANGED <<entry, others, jvars, skip_judge, manual_result, file_search_result,
                   result, context_str, ovars, trace>>

\* time.sleep(3)  (evaluate_light.py 262-263)
wait_before_file_search ==
    /\ pc = "wait"
    /\ trace' = Append(trace, "sleep3")
    /\ pc' = "file_search"
    /\ UNCHANGED <<entry, others, jvars, skip_judge, manual_result, file_search_result,
                   result, context_str, ovars>>

\* run_file_search_rag raises: the except clause of the file-search block
\* (evaluate_light.py 267-268, 292-294)
run_file_search_rag_raises ==
    /\ pc = "file_search"
    /\ file_search_result' = PyNone
    /\ trace' = Append(trace, "file_search_run_raised")
    /\ pc' = "compare"
    /\ UNCHANGED <<entry, others, jvars, skip_judge, manual_result, result,
                   context_str, ovars>>

\* run_file_search_rag returns n chunks; with judging: time.sleep(5), the
\* context string, and judge_response is called  (evaluate_light.py 268-287)
run_file_search_rag_returns(n) ==
    /\ pc = "file_search"
    /\ file_search_result' = FileSearchRagResult(Chunks(n))
    /\ IF skip_judge
       THEN /\ pc' = "compare"
            /\ trace' = Append(trace, "file_search_run")
            /\ UNCHANGED <<jvars, context_str>>
       ELSE /\ pc' = "file_search_judge"
            /\ trace' = trace \o <<"file_search_run", "sleep5">>
            /\ context_str' = ContextString(file_search_result')
            /\ Light_enter
    /\ UNCHANGED <<entry, others, skip_judge, manual_result, result, ovars>>

\* judge_response has returned to the file-search block
\* (evaluate_light.py 288-294)
file_search_judged ==
    /\ pc = "file_search_judge"
    /\ j_pc = "returned"
    /\ IF print_judge_evaluation_raises(j_ret)
       THEN /\ file_search_result' = PyNone
            /\ trace' = trace \o <<"file_search_judge", "file_search_display_raised">>
       ELSE /\ file_search_result' = SetItem(file_search_result, "evaluation", j_ret)
            /\ trace' = Append(trace, "file_search_judge")
    /\ pc' = "compare"
    /\ JudgeForgotten
    /\ UNCHANGED <<entry, others, skip_judge, manual_result, result, context_str, ovars>>

\* a comparison block that is never entered
ComparisonWanted_never == FALSE

\* if manual_result and file_search_result and not skip_judge
\* (evaluate_light.py 297)
ComparisonWanted ==
    Truthy(manual_result) /\ Truthy(file_search_result) /\ ~skip_judge

\* the comparison block  (evaluate_light.py 296-300); an exception of
\* print_score_comparison leaves evaluate_single_question
compare ==
    /\ pc = "compare"
    /\ IF ComparisonWanted
       THEN LET out == print_score_comparison(manual_result, file_search_result)
            IN  /\ printed' = out.rows
                /\ IF out.raised
                   THEN pc' = "raised" /\ trace' = Append(trace, "compare_raised")
                   ELSE pc' = "save" /\ trace' = Append(trace, "compare")
       ELSE /\ pc' = "save"
            /\ UNCHANGED <<printed, trace>>
    /\ UNCHANGED <<entry, others, jvars, skip_judge, manual_result, file_search_result,
                   result, context_str, markdown, files, renders>>

\* the report is built and save_result writes the JSON file, then renders and
\* writes the Markdown file  (evaluate_light.py 302-315,
\* report_generator.py 35-83); an exception of the rendering leaves
\* evaluate_single_question after the JSON file was written
save_result ==
    /\ pc = "save"
    /\ result' = QuestionReport(manual_result, file_search_result)
    /\ IF generate_markdown_content_raises(result')
       THEN /\ files' = [json |-> TRUE, md |-> FALSE]
            /\ pc' = "raised"
            /\ trace' = Append(trace, "save_raised")
            /\ UNCHANGED <<markdown, renders>>
       ELSE /\ files' = [json |-> TRUE, md |-> TRUE]
            /\ markdown' = generate_markdown_content(result')
            /\ renders' = Append(renders, Rendering(markdown', FirstStamp))
            /\ pc' = "done"
            /\ trace' = Append(trace, "save")
    /\ UNCHANGED <<entry, others, jvars, skip_judge, manual_result, file_search_result,
                   context_str, printed>>

Init ==
    /\ entry = "evaluate_single_question"
    /\ JudgeIdle
    /\ NoOtherCall
    /\ NoStores
    /\ EvaluatorIdle
    /\ OutputsEmpty

\* the outcomes of a model call tried inside evaluate_single_question: every
\* document bare, a list, a text that is no JSON; an overload and another failure
EvaluatorContents ==
    {[none |-> FALSE, s |-> t] :
        t \in {Doc(b) : b \in DictBodies} \cup {<<"[", "]">>, <<"S", "o", "r", "r", "y">>}}

EvaluatorErrors == {Msg503, Msg401}

\* the model calls of judge_response, made inside evaluate_single_question
JudgeSteps ==
    \/ \E c \in EvaluatorContents : Light_generate_content_returns(c, MsgDecode0)
    \/ \E err \in EvaluatorErrors : Light_generate_content_raises(err)

Next ==
    \/ \E found \in BOOLEAN, skip \in BOOLEAN : evaluate_single_question(found, skip)
    \/ run_manual_rag_raises
    \/ \E n \in 0..MaxChunks : run_manual_rag_returns(n)
    \/ manual_judged
    \/ wait_before_file_search
    \/ run_file_search_rag_raises
    \/ \E n \in 0..MaxChunks : run_file_search_rag_returns(n)
    \/ file_search_judged
    \/ compare
    \/ save_result
    \/ JudgeSteps

Spec == Init /\ [][Next]_vars


(***************************************************************************)
(* SpecReport: the report generator and the console comparison applied to  *)
(* pipeline results drawn from a grid of evaluations.                      *)
(***************************************************************************)
DrawnScores == {n \in 1..5 : n > 5 - ScoreSpan}

ReportEvaluations ==
    {Scored(sc) : sc \in [CriteriaSet -> DrawnScores]}
        \cup {Scored(Uniform(n)) : n \in 1..5}
        \cup {DictOf(b) : b \in DictBodies}
        \cup {FailureRecord, InvalidJsonRecord(<<"S", "o", "r", "r", "y">>)}

\* a pipeline result: absent, not judged, or judged
ReportInputs(rag_result) ==
    {PyNone, rag_result}
        \cup {SetItem(rag_result, "evaluation", ev) : ev \in ReportEvaluations}

InitReport ==
    /\ entry = "report"
    /\ JudgeIdle
    /\ NoOtherCall
    /\ NoStores
    /\ pc = "idle"
    /\ skip_judge = FALSE
    /\ manual_result \in ReportInputs(ManualRagResult(Chunks(2)))
    /\ file_search_result \in ReportInputs(FileSearchRagResult(Chunks(3)))
    /\ trace = << >>
    /\ result = PyNone
    /\ context_str = << >>
    /\ OutputsEmpty

\* _generate_markdown_content(result) returns
render_report ==
    /\ entry \in {"report", "render"}
    /\ ~markdown.rendered
    /\ LET report == QuestionReport(manual_result, file_search_result)
       IN  /\ ~generate_markdown_content_raises(report)
           /\ markdown' = generate_markdown_content(report)
           /\ renders' = Append(renders, Rendering(markdown', FirstStamp))
           /\ result' = Report_after_render(report)
    /\ UNCHANGED <<entry, others, jvars, pc, skip_judge, manual_result, file_search_result,
                   trace, context_str, printed, files>>

\* _generate_markdown_content(result) raises
render_report_raises ==
    /\ entry \in {"report", "render"}
    /\ pc = "idle"
    /\ ~markdown.rendered
    /\ result' = QuestionReport(manual_result, file_search_result)
    /\ generate_markdown_content_raises(result')
    /\ trace' = Append(trace, "render_raised")
    /\ pc' = "raised"
    /\ UNCHANGED <<entry, others, jvars, skip_judge, manual_result, file_search_result,
                   context_str, ovars>>

\* print_score_comparison(manual_result, file_search_result) on two results
show_score_comparison ==
    /\ entry = "report"
    /\ Truthy(manual_result)
    /\ Truthy(file_search_result)
    /\ "compare" \notin {trace[i] : i \in 1..Len(trace)}
    /\ LET out == print_score_comparison(manual_result, file_search_result)
       IN  /\ printed' = out.rows
           /\ trace' = trace \o <<"compare">>
                         \o (IF out.raised THEN <<"compare_raised">> ELSE << >>)
    /\ UNCHANGED <<entry, others, jvars, pc, skip_judge, manual_result, file_search_result,
                   result, context_str, markdown, files, renders>>

NextReport ==
    \/ render_report
    \/ render_report_raises
    \/ show_score_comparison

SpecReport == InitReport /\ [][NextReport]_vars


(***************************************************************************)
(* SpecRender: _generate_markdown_content called on one report, and called *)
(* again on the same report object.                                        *)
(***************************************************************************)
RenderEvaluations ==
    {Scored(Uniform(n)) : n \in 1..5}
        \cup {DictOf(b) : b \in DictBodies}
        \cup {FailureRecord, InvalidJsonRecord(<<"S", "o", "r", "r", "y">>)}

RenderInputs(rag_result) ==
    {PyNone, rag_result}
        \cup {SetItem(rag_result, "evaluation", ev) : ev \in RenderEvaluations}

InitRender ==
    /\ entry = "render"
    /\ JudgeIdle
    /\ NoOtherCall
    /\ NoStores
    /\ pc = "idle"
    /\ skip_judge = FALSE
    /\ manual_result \in RenderInputs(ManualRagResult(Chunks(2)))
    /\ file_search_result \in RenderInputs(FileSearchRagResult(Chunks(3)))
    /\ trace = << >>
    /\ result = PyNone
    /\ context_str = << >>
    /\ OutputsEmpty

\* _generate_markdown_content(result) called once more on the report object of
\* the first call, in the same second or a later one
render_again(now) ==
    /\ entry = "render"
    /\ markdown.rendered
    /\ Len(renders) = 1
    /\ ~generate_markdown_content_raises(result)
    /\ markdown' = generate_markdown_content(result)
    /\ renders' = Append(renders, Rendering(markdown', now))
    /\ result' = Report_after_render(result)
    /\ UNCHANGED <<entry, others, jvars, pc, skip_judge, manual_result, file_search_result,
                   trace, context_str, printed, files>>

NextRender ==
    \/ render_report
    \/ render_report_raises
    \/ \E now \in FooterStamps : render_again(now)

SpecRender == InitRender /\ [][NextRender]_vars

(***************************************************************************)
(* SpecJudge: one judge_response call, of either class.                    *)
(***************************************************************************)
InitJudge ==
    /\ entry \in {"AIJudge", "LightRAGEvaluator"}
    /\ JudgeIdle
    /\ NoOtherCall
    /\ NoStores
    /\ EvaluatorIdle
    /\ OutputsEmpty

NextJudge ==
    \/ \E m \in {"None", "", "judge-model"}, cfg \in ConfigModels, env \in EnvModels,
          mr \in 1..MaxRetriesArg :
             AIJudge_judge_response(m, default_model(cfg, env), mr)
    \/ \E c \in Contents : AIJudge_completion_returns(c)
    \/ \E err \in ErrorMessages : AIJudge_except_OpenAIError(err)
    \/ \E err \in ErrorMessages : AIJudge_except_Exception(err)
    \/ Light_judge_response
    \/ \E c \in Contents, derr \in DecodeErrorMessages :
          Light_generate_content_returns(c, derr)
    \/ \E err \in ErrorMessages : Light_generate_content_raises(err)

SpecJudge == InitJudge /\ [][NextJudge]_vars

(***************************************************************************)
(* Vocabulary of the properties.                                           *)
(***************************************************************************)
\* the model calls of the executing judge call, in order
Calls == SelectSeq(events, LAMBDA x : x.e = "call")

RECURSIVE SumDelays(_)
SumDelays(es) == IF es = << >> THEN 0 ELSE Head(es).d + SumDelays(Tail(es))

\* seconds slept so far by the executing judge call
SleepTotal == SumDelays(events)

RECURSIVE Pow2(_)
Pow2(n) == IF n = 0 THEN 1 ELSE 2 * Pow2(n - 1)

\* the failure texts that show a transient overload: they contain "503" or,
\* in any case, "overloaded"
TransientTexts == {Msg503, MsgOverloaded, MsgOVERLOADED}

IsTransientFailure(ev) == ev.out = "raised" /\ ev.msg \in TransientTexts

AllTransient(cs) == \A i \in 1..Len(cs) : IsTransientFailure(cs[i])

\* 'error' in record, for a returned dict
HasError(r) == IsDict(r) /\ HasKey(r, "error")

\* the five criteria are present and every score is 0
AllCriteriaZero(r) ==
    /\ IsDict(r)
    /\ \A c \in CriteriaSet :
          /\ HasKey(r, c)
          /\ IsDict(r.v[c])
          /\ HasKey(r.v[c], "score")
          /\ r.v[c].v["score"] = PyInt(0)

\* the five criteria are present and every score is an integer in 1..5
AllCriteriaScored(r) ==
    /\ IsDict(r)
    /\ \A c \in CriteriaSet :
          /\ HasKey(r, c)
          /\ IsDict(r.v[c])
          /\ HasKey(r.v[c], "score")
          /\ r.v[c].v["score"].k = "int"
          /\ r.v[c].v["score"].v \in 1..5

InLoopOrReturned == j_pc \in {"loop", "returned"}

(***************************************************************************)
(* C1.  AIJudge.judge_response: a model call that is delivered but whose   *)
(* fence-stripped payload is not valid JSON is the last event of the call: *)
(* the call has returned {"error": "invalid_json", "raw_response": the     *)
(* cleaned text}, no model call or sleep follows, and when it is the first *)
(* response exactly one model call was made.                               *)
(***************************************************************************)
C1_InvalidJsonReturnsAtOnce ==
    j_class = "AIJudge" =>
        \A i \in 1..Len(events) :
            (events[i].e = "call" /\ events[i].out = "invalid_json") =>
                /\ i = Len(events)
                /\ j_pc = "returned"
                /\ HasError(j_ret)
                /\ j_ret.v["error"] = PyStr(<<"invalid_json">>)
                /\ HasKey(j_ret, "raw_response")
                /\ j_ret.v["raw_response"] = PyStr(response_text)
                /\ (i = 1 => Len(Calls) = 1)

C1_Witness ==
    /\ j_class = "AIJudge"
    /\ j_pc = "returned"
    /\ max_retries = 3
    /\ Len(events) = 1
    /\ events[1].out = "invalid_json"
    /\ content = [none |-> FALSE, s |-> <<"S", "o", "r", "r", "y">>]
    /\ j_ret = InvalidJsonRecord(<<"S", "o", "r", "r", "y">>)

(***************************************************************************)
(* C2.  LightRAGEvaluator.judge_response: a delivered payload that is not  *)
(* valid JSON ends the call at once with {"error": "invalid_json",         *)
(* "raw_response": the cleaned text}; no model call follows it.            *)
(***************************************************************************)
C2_LightInvalidJsonReturnsAtOnce ==
    j_class = "LightRAGEvaluator" =>
        \A i \in 1..Len(events) :
            (events[i].e = "call" /\ events[i].out = "invalid_json") =>
                /\ i = Len(events)
                /\ j_pc = "returned"
                /\ HasError(j_ret)
                /\ j_ret.v["error"] = PyStr(<<"invalid_json">>)
                /\ HasKey(j_ret, "raw_response")
                /\ j_ret.v["raw_response"] = PyStr(response_text)

(***************************************************************************)
(* C3.  A judge call (of either class) that has met only transient         *)
(* overload failures, fewer than max_retries of them, is still running and *)
(* has slept 5 * (2^k - 1) seconds after k failures; when max_retries - 1  *)
(* such failures are followed by a valid JSON response the call returns    *)
(* the parsed object, after exactly max_retries model calls and            *)
(* 5 * (2^(max_retries-1) - 1) seconds of sleep.                           *)
(***************************************************************************)
C3_SuccessAfterTransientFailures ==
    InLoopOrReturned =>
        LET cs == Calls
            n  == Len(cs)
        IN  /\ (AllTransient(cs) /\ n <= max_retries - 1) =>
                /\ j_pc = "loop"
                /\ SleepTotal = 5 * (Pow2(n) - 1)
            /\ (/\ n = max_retries
                /\ AllTransient(SubSeq(cs, 1, n - 1))
                /\ cs[n].out = "json") =>
                /\ j_pc = "returned"
                /\ ~HasError(j_ret)
                /\ j_ret = json_loads(response_text).value
                /\ \A b \in DictBodies : content.s = Doc(b) => j_ret = DictOf(b)
                /\ SleepTotal = 5 * (Pow2(max_retries - 1) - 1)

C3_Witness ==
    /\ j_class = "AIJudge"
    /\ j_pc = "returned"
    /\ max_retries = 4
    /\ Len(Calls) = 4
    /\ AllTransient(SubSeq(Calls, 1, 3))
    /\ Calls[4].out = "json"
    /\ j_ret = Scored(Uniform(5))
    /\ SleepTotal = 35

C3_WitnessLight ==
    /\ j_class = "LightRAGEvaluator"
    /\ j_pc = "returned"
    /\ Len(Calls) = 3
    /\ AllTransient(SubSeq(Calls, 1, 2))
    /\ Calls[3].out = "json"
    /\ j_ret = Scored(Uniform(5))
    /\ SleepTotal = 15

(***************************************************************************)
(* C4.  A judge call (of either class) that meets only transient overload  *)
(* failures keeps calling until max_retries calls were made, never more,   *)
(* and then returns, without raising, the failure record: the generic      *)
(* exhaustion error and the five criteria with score 0.                    *)
(***************************************************************************)
C4_ExhaustionReturnsFailureRecord ==
    /\ (j_pc = "raised" => events = << >>)
    /\ InLoopOrReturned =>
        LET cs == Calls
        IN  AllTransient(cs) =>
                /\ Len(cs) <= max_retries
                /\ (Len(cs) < max_retries => j_pc = "loop")
                /\ (Len(cs) = max_retries =>
                        /\ j_pc = "returned"
                        /\ HasError(j_ret)
                        /\ j_ret.v["error"] = PyStr(<<"Falha apos todas as tentativas">>)
                        /\ AllCriteriaZero(j_ret))

C4_Witness ==
    /\ j_class = "AIJudge"
    /\ j_pc = "returned"
    /\ max_retries = 4
    /\ Len(Calls) = 4
    /\ AllTransient(Calls)
    /\ j_ret = FailureRecord

C4_WitnessLight ==
    /\ j_class = "LightRAGEvaluator"
    /\ j_pc = "returned"
    /\ Len(Calls) = 3
    /\ AllTransient(Calls)
    /\ j_ret = FailureRecord

(***************************************************************************)
(* C5.  Every record AIJudge.judge_response returns with an error key      *)
(* carries the five criteria, each with score 0.                           *)
(***************************************************************************)
C5_ErrorRecordsAreAllZero ==
    (j_class = "AIJudge" /\ j_pc = "returned" /\ HasError(j_ret))
        => AllCriteriaZero(j_ret)

(***************************************************************************)
(* C6.  Every record a judge call returns without an error key carries the *)
(* five criteria, each with an integer score in 1..5.                      *)
(***************************************************************************)
C6_SuccessRecordsAreScored ==
    (j_pc = "returned" /\ ~HasError(j_ret)) => AllCriteriaScored(j_ret)

\* x occurs in the trace of evaluate_single_question
InTrace(x) == \E i \in 1..Len(trace) : trace[i] = x

\* a pipeline result that was judged
Judged(rag_result) == IsDict(rag_result) /\ HasKey(rag_result, "evaluation")

\* a success record: no error key, five criteria scored in 1..5
IsSuccess(ev) == ~HasError(ev) /\ AllCriteriaScored(ev)

\* the score an evaluation gives to criterion c
ScoreIn(ev, c) == ev.v[c].v["score"].v

(***************************************************************************)
(* C7.  The comparison of the report (_build_comparison_section) is empty  *)
(* when either evaluation has an error key; for two success records it has *)
(* exactly five rows, one per criterion in the order of the criteria, each *)
(* with the difference file-search score minus manual score, written with  *)
(* a plus sign exactly when file-search scored higher.                     *)
(***************************************************************************)
C7_ComparisonDifferences ==
    (/\ entry = "report"
     /\ markdown.rendered
     /\ Judged(manual_result)
     /\ Judged(file_search_result)) =>
        LET cmp == markdown.comparison[1]
            m   == manual_result.v["evaluation"]
            f   == file_search_result.v["evaluation"]
        IN  /\ (HasError(m) \/ HasError(f)) =>
                    /\ cmp.text = ""
                    /\ cmp.rows = << >>
            /\ (IsSuccess(m) /\ IsSuccess(f)) =>
                    /\ cmp.text # ""
                    /\ Len(cmp.rows) = 5
                    /\ \A i \in 1..5 :
                          /\ cmp.rows[i].criterion = criteria[i]
                          /\ cmp.rows[i].diff = ScoreIn(f, criteria[i]) - ScoreIn(m, criteria[i])
                          /\ cmp.rows[i].diff_str.sign = "+"
                                <=> ScoreIn(f, criteria[i]) > ScoreIn(m, criteria[i])

C7_Witness ==
    /\ entry = "report"
    /\ markdown.rendered
    /\ Judged(manual_result)
    /\ Judged(file_search_result)
    /\ manual_result.v["evaluation"] = Scored(MixedScores)
    /\ file_search_result.v["evaluation"] = Scored(Uniform(4))
    /\ Len(markdown.comparison[1].rows) = 5
    /\ markdown.comparison[1].rows[1].diff = 3
    /\ markdown.comparison[1].rows[2].diff = 0 - 1

C7_WitnessError ==
    /\ entry = "report"
    /\ markdown.rendered
    /\ Judged(manual_result)
    /\ Judged(file_search_result)
    /\ manual_result.v["evaluation"] = FailureRecord
    /\ file_search_result.v["evaluation"] = Scored(Uniform(4))
    /\ markdown.comparison[1] = EmptyComparison

(***************************************************************************)
(* C8.  In evaluate_single_question, when either evaluation carries an     *)
(* error key the comparison is skipped: print_score_comparison prints no   *)
(* row.                                                                    *)
(***************************************************************************)
C8_NoComparisonOfFailureRecords ==
    (/\ entry = "evaluate_single_question"
     /\ Judged(manual_result)
     /\ Judged(file_search_result)
     /\ \/ HasError(manual_result.v["evaluation"])
        \/ HasError(file_search_result.v["evaluation"])) =>
        /\ printed = << >>
        /\ ~InTrace("compare")

(***************************************************************************)
(* C9.  For two success records the winner tally of the report counts a    *)
(* criterion for the manual pipeline iff its manual score is greater, for  *)
(* file-search iff its file-search score is greater, as a tie iff the      *)
(* scores are equal; the three counts add up to 5 and each winner agrees   *)
(* with the sign of the difference in the row of the same criterion; all   *)
(* 4s against all 5s gives +1 in every row and the tally 0 / 5 / 0.        *)
(***************************************************************************)
C9_WinnerTally ==
    (/\ entry = "report"
     /\ markdown.rendered
     /\ Judged(manual_result)
     /\ Judged(file_search_result)
     /\ IsSuccess(manual_result.v["evaluation"])
     /\ IsSuccess(file_search_result.v["evaluation"])) =>
        LET cmp == markdown.comparison[1]
            w   == cmp.winner
            m   == manual_result.v["evaluation"]
            f   == file_search_result.v["evaluation"]
        IN  /\ w.manual_wins =
                  Cardinality({c \in CriteriaSet : ScoreIn(m, c) > ScoreIn(f, c)})
            /\ w.file_search_wins =
                  Cardinality({c \in CriteriaSet : ScoreIn(f, c) > ScoreIn(m, c)})
            /\ w.ties =
                  Cardinality({c \in CriteriaSet : ScoreIn(f, c) = ScoreIn(m, c)})
            /\ w.manual_wins + w.file_search_wins + w.ties = 5
            /\ Len(w.lines) = 5
            /\ \A i \in 1..5 :
                  /\ w.lines[i].criterion = cmp.rows[i].criterion
                  /\ w.lines[i].winner = "manual" <=> cmp.rows[i].diff < 0
                  /\ w.lines[i].winner = "file_search" <=> cmp.rows[i].diff > 0
                  /\ w.lines[i].winner = "tie" <=> cmp.rows[i].diff = 0
            /\ (m = Scored(Uniform(4)) /\ f = Scored(Uniform(5))) =>
                  /\ \A i \in 1..5 :
                        cmp.rows[i].diff = 1 /\ cmp.rows[i].diff_str = [sign |-> "+", digits |-> 1]
                  /\ w.manual_wins = 0 /\ w.file_search_wins = 5 /\ w.ties = 0

C9_Witness ==
    /\ entry = "report"
    /\ markdown.rendered
    /\ Judged(manual_result)
    /\ Judged(file_search_result)
    /\ manual_result.v["evaluation"] = Scored(Uniform(4))
    /\ file_search_result.v["evaluation"] = Scored(Uniform(5))
    /\ markdown.comparison[1].winner.file_search_wins = 5

C9_WitnessMixed ==
    /\ entry = "report"
    /\ markdown.rendered
    /\ Judged(manual_result)
    /\ Judged(file_search_result)
    /\ manual_result.v["evaluation"] = Scored(MixedScores)
    /\ file_search_result.v["evaluation"] = Scored(Uniform(4))
    /\ markdown.comparison[1].winner.manual_wins = 1
    /\ markdown.comparison[1].winner.file_search_wins = 3
    /\ markdown.comparison[1].winner.ties = 1

(***************************************************************************)
(* C10.  In evaluate_single_question the failure of one pipeline run stays *)
(* with that pipeline.  After run_manual_rag raised, the call goes on to   *)
(* run the file-search pipeline, does not raise, and ends with both files  *)
(* written and a report whose manual_rag is None and whose file_search_rag *)
(* is the file-search result (judged unless judging is skipped) whenever   *)
(* the file-search block met no exception of its own; the rendered report  *)
(* then has no manual and no comparison section.  After run_file_search_rag*)
(* raised, the report keeps the manual result the manual block obtained.   *)
(***************************************************************************)
ManualBlockFailed == InTrace("manual_run_raised") \/ InTrace("manual_display_raised")

FileSearchBlockFailed ==
    InTrace("file_search_run_raised") \/ InTrace("file_search_display_raised")

FileSearchRan == InTrace("file_search_run") \/ InTrace("file_search_run_raised")

\* a pipeline result as its run returned it, judged unless judging is skipped
Populated(r, answer) ==
    /\ IsDict(r)
    /\ HasKey(r, "answer") /\ r.v["answer"] = PyStr(answer)
    /\ HasKey(r, "context")
    /\ HasKey(r, "num_chunks") /\ r.v["num_chunks"] = PyInt(Len(r.v["context"].v))
    /\ HasKey(r, "evaluation") <=> ~skip_judge

C10_PipelineFailureIsIsolated ==
    entry = "evaluate_single_question" =>
        /\ InTrace("manual_run_raised") =>
              /\ manual_result = PyNone
              /\ pc # "raised"
              /\ pc \in {"file_search_judge", "compare", "save", "done"} => FileSearchRan
              /\ pc = "done" =>
                    /\ files = [json |-> TRUE, md |-> TRUE]
                    /\ result.v["manual_rag"] = PyNone
                    /\ ~FileSearchBlockFailed =>
                          /\ Populated(result.v["file_search_rag"], <<"resposta file search">>)
                          /\ markdown.order = <<"header", "question", "file_search", "footer">>
        /\ InTrace("file_search_run_raised") =>
              /\ file_search_result = PyNone
              /\ pc # "raised"
              /\ pc = "done" =>
                    /\ files = [json |-> TRUE, md |-> TRUE]
                    /\ result.v["file_search_rag"] = PyNone
                    /\ ~ManualBlockFailed =>
                          /\ Populated(result.v["manual_rag"], <<"resposta manual">>)
                          /\ markdown.order = <<"header", "question", "manual", "footer">>

C10_Witness ==
    /\ entry = "evaluate_single_question"
    /\ pc = "done"
    /\ ~skip_judge
    /\ InTrace("manual_run_raised")
    /\ InTrace("file_search_run")
    /\ result.v["manual_rag"] = PyNone
    /\ Judged(result.v["file_search_rag"])
    /\ result.v["file_search_rag"].v["evaluation"] = Scored(Uniform(5))
    /\ files = [json |-> TRUE, md |-> TRUE]

C10_WitnessFileSearch ==
    /\ entry = "evaluate_single_question"
    /\ pc = "done"
    /\ ~skip_judge
    /\ InTrace("file_search_run_raised")
    /\ Judged(result.v["manual_rag"])
    /\ result.v["file_search_rag"] = PyNone
    /\ files = [json |-> TRUE, md |-> TRUE]

(***************************************************************************)
(* C11.  evaluate_single_question, called with a question id of the        *)
(* configuration, never lets an exception reach its caller: whatever the   *)
(* pipelines and the judge calls do, it returns a report in which a        *)
(* failure shows as an absent pipeline result (None) or as an evaluation   *)
(* with an error key.                                                      *)
(***************************************************************************)
C11_NoExceptionReachesCaller ==
    (entry = "evaluate_single_question" /\ ~InTrace("not_found")) =>
        /\ pc # "raised"
        /\ pc = "done" =>
              /\ IsDict(result)
              /\ result.v["manual_rag"] = manual_result
              /\ result.v["file_search_rag"] = file_search_result

(***************************************************************************)
(* C12.  Persisted reports are complete: at every moment, and whether      *)
(* save_result returned or failed, the JSON file and the Markdown file of  *)
(* the report are either both written or both not written.                 *)
(***************************************************************************)
C12_NoPartialReport == files.json <=> files.md

\* the fixed order of the sections of the report
SectionOrder == <<"header", "question", "manual", "file_search", "comparison", "footer">>

\* the sections the rendered report holds
RenderedSections == {markdown.order[i] : i \in 1..Len(markdown.order)}

\* a pipeline result that is absent, not judged, judged with an error key, or
\* judged with a success record
Degradable(rag_result) ==
    \/ rag_result = PyNone
    \/ ~Judged(rag_result)
    \/ HasError(rag_result.v["evaluation"])
    \/ IsSuccess(rag_result.v["evaluation"])

\* the per-criterion table of a rendered pipeline section is left out
TableOmitted(section) == section[1].table = << >>

(***************************************************************************)
(* C13.  The rendered report keeps the fixed section order header,         *)
(* question, manual, file-search, comparison, footer: the sections present *)
(* are those of the fixed order, each once, in that order; header,         *)
(* question and footer are always there, a pipeline section is there       *)
(* exactly when its result is present, and its per-criterion table is left *)
(* out exactly when its evaluation is absent or carries an error.          *)
(* Rendering raises for no combination of absent results, absent           *)
(* evaluations, error-tagged evaluations and success records.              *)
(***************************************************************************)
C13_SectionOrder ==
    entry = "report" =>
        /\ markdown.rendered =>
              /\ markdown.order = SelectSeq(SectionOrder, LAMBDA s : s \in RenderedSections)
              /\ {"header", "question", "footer"} \subseteq RenderedSections
              /\ "manual" \in RenderedSections <=> manual_result # PyNone
              /\ "file_search" \in RenderedSections <=> file_search_result # PyNone
              /\ "comparison" \in RenderedSections =>
                    manual_result # PyNone /\ file_search_result # PyNone
              /\ manual_result # PyNone =>
                    (TableOmitted(markdown.manual)
                        <=> (~Judged(manual_result)
                             \/ HasError(manual_result.v["evaluation"])))
              /\ file_search_result # PyNone =>
                    (TableOmitted(markdown.file_search)
                        <=> (~Judged(file_search_result)
                             \/ HasError(file_search_result.v["evaluation"])))
        /\ (Degradable(manual_result) /\ Degradable(file_search_result)) =>
              ~InTrace("render_raised")

C13_Witness ==
    /\ entry = "report"
    /\ markdown.rendered
    /\ manual_result = PyNone
    /\ Judged(file_search_result)
    /\ file_search_result.v["evaluation"] = FailureRecord
    /\ markdown.order = <<"header", "question", "file_search", "footer">>
    /\ TableOmitted(markdown.file_search)

C13_WitnessFull ==
    /\ entry = "report"
    /\ markdown.rendered
    /\ Judged(manual_result)
    /\ Judged(file_search_result)
    /\ manual_result.v["evaluation"] = FailureRecord
    /\ file_search_result.v["evaluation"] = Scored(Uniform(5))
    /\ markdown.order = SectionOrder
    /\ TableOmitted(markdown.manual)
    /\ ~TableOmitted(markdown.file_search)

\* the comparison section of the rendered report has content
ComparisonRendered ==
    /\ markdown.rendered
    /\ markdown.comparison # << >>
    /\ markdown.comparison[1].text # ""

(***************************************************************************)
(* C14.  The rendered report has comparison content (score table, winner   *)
(* tally, chunk analysis) only if both pipeline results are present and    *)
(* each carries an evaluation without an error key; in every other case,   *)
(* a run with judging skipped included, nothing of the comparison is       *)
(* rendered.                                                               *)
(***************************************************************************)
C14_ComparisonOnlyForTwoEvaluations ==
    ComparisonRendered =>
        /\ Judged(result.v["manual_rag"])
        /\ ~HasError(result.v["manual_rag"].v["evaluation"])
        /\ Judged(result.v["file_search_rag"])
        /\ ~HasError(result.v["file_search_rag"].v["evaluation"])

SaveCalls == Cardinality({i \in 1..Len(trace) : trace[i] \in {"save", "save_raised"}})

\* the evaluate_single_question call has ended, by a return or by an exception
CallEnded == pc \in {"done", "raised"}

(***************************************************************************)
(* C17.  Every invocation of evaluate_single_question(question_id,         *)
(* skip_judge) persists a report: when the call has ended, exactly one     *)
(* save_result call was made, for every question id passed and for both    *)
(* values of skip_judge.                                                   *)
(***************************************************************************)
C17_EveryInvocationPersists ==
    (entry = "evaluate_single_question" /\ CallEnded) => SaveCalls = 1

\* a model call that raised with a text showing no transient overload
IsNonTransientFailure(ev) ==
    ev.e = "call" /\ ev.out = "raised" /\ ev.msg \in ErrorMessages \ TransientTexts

(***************************************************************************)
(* C18.  AIJudge.judge_response stops retrying on a non-transient failure: *)
(* a model call that raises with a text containing neither "503" nor, in   *)
(* any case, "overloaded" is the last event of the call, whatever attempts *)
(* remain: no model call and no sleep follows it, and the call has         *)
(* returned the failure record with the five criteria at score 0.          *)
(***************************************************************************)
C18_NonTransientFailureStopsAIJudge ==
    entry = "AIJudge" =>
        \A i \in 1..Len(events) :
            IsNonTransientFailure(events[i]) =>
                /\ i = Len(events)
                /\ j_pc = "returned"
                /\ j_ret = FailureRecord
                /\ HasError(j_ret) /\ AllCriteriaZero(j_ret)

C18_Witness ==
    /\ entry = "AIJudge"
    /\ max_retries = MaxRetriesArg
    /\ events = <<CallEvent("raised", Msg401)>>
    /\ j_pc = "returned"
    /\ j_ret = FailureRecord

C18_WitnessAfterRetry ==
    /\ entry = "AIJudge"
    /\ max_retries = MaxRetriesArg
    /\ events = <<CallEvent("raised", Msg503), SleepEvent(5), CallEvent("raised", MsgOverload)>>
    /\ j_pc = "returned"
    /\ j_ret = FailureRecord

(***************************************************************************)
(* C19.  LightRAGEvaluator.judge_response stops retrying on a              *)
(* non-transient failure: a model call that raises with a text containing  *)
(* neither "503" nor, in any case, "overloaded" is the last model call of  *)
(* the judge call, which has returned the failure record; when the first   *)
(* attempt fails so, exactly one model call was made.                      *)
(***************************************************************************)
C19_NonTransientFailureStopsLight ==
    entry = "LightRAGEvaluator" =>
        \A i \in 1..Len(events) :
            IsNonTransientFailure(events[i]) =>
                /\ \A j \in (i + 1)..Len(events) : events[j].e # "call"
                /\ (i = 1 /\ j_pc = "returned") =>
                      (j_ret = FailureRecord /\ Len(Calls) = 1)

\* the stages of evaluate_single_question, in the order of the source
StageOrder ==
    <<"manual_run", "manual_judge", "file_search_run", "file_search_judge", "compare", "save">>

\* the stages finished so far, in the order they finished
Stages ==
    SelectSeq(trace, LAMBDA x : x \in {StageOrder[i] : i \in 1..Len(StageOrder)})

\* no pipeline run, display, comparison or save has raised
NoStageFailure ==
    \A i \in 1..Len(trace) :
        trace[i] \notin {"not_found", "manual_run_raised", "manual_display_raised",
                         "file_search_run_raised", "file_search_display_raised",
                         "compare_raised", "save_raised"}

IsPrefix(s, t) == Len(s) <= Len(t) /\ s = SubSeq(t, 1, Len(s))

(***************************************************************************)
(* C20.  For a found question with judging enabled and no stage failure,   *)
(* evaluate_single_question goes through its stages in the order manual    *)
(* run, manual judge call, file-search run, file-search judge call,        *)
(* comparison, persistence: at every moment the stages finished are a      *)
(* prefix of that order (none twice, none ahead of an earlier one, the     *)
(* save never before a run, a judge call or the comparison); a judge call  *)
(* executes only after its pipeline run has finished and before the next   *)
(* stage; and when the call has returned every stage happened exactly once.*)
(***************************************************************************)
C20_StagesInOrder ==
    (/\ entry = "evaluate_single_question"
     /\ pc # "idle"
     /\ ~skip_judge
     /\ NoStageFailure) =>
        /\ IsPrefix(Stages, StageOrder)
        /\ j_pc # "idle" =>
              \/ pc = "manual_judge" /\ Stages = <<"manual_run">>
              \/ pc = "file_search_judge"
                    /\ Stages = <<"manual_run", "manual_judge", "file_search_run">>
        /\ pc = "save" => Len(Stages) = 5
        /\ pc = "done" => Stages = StageOrder

C20_Witness ==
    /\ entry = "evaluate_single_question"
    /\ pc = "done"
    /\ ~skip_judge
    /\ NoStageFailure
    /\ trace = <<"manual_run", "manual_judge", "sleep3", "file_search_run", "sleep5",
                 "file_search_judge", "compare", "save">>
    /\ Len(printed) = 5
    /\ files = [json |-> TRUE, md |-> TRUE]

(***************************************************************************)
(* Claims C21..C30                                                         *)
(***************************************************************************)
\* the trace entries that end the manual stage
ManualStageEnds ==
    {"manual_run_raised", "manual_run", "manual_judge", "manual_display_raised"}

\* C21: in every evaluation of a found question the file-search pipeline starts
\* only after a 3 s wait that follows the end of the manual stage (successful
\* or raised); with judging enabled a successful file-search run is followed at
\* once by a 5 s wait, and every file-search judge call has that wait
\* immediately before it.
C21_WaitsPrecedeCalls ==
    /\ \A i \in 1..Len(trace) :
          trace[i] \in {"file_search_run", "file_search_run_raised"} =>
              /\ i > 2
              /\ trace[i - 1] = "sleep3"
              /\ trace[i - 2] \in ManualStageEnds
    /\ \A i \in 1..Len(trace) :
          trace[i] = "sleep3" => i > 1 /\ trace[i - 1] \in ManualStageEnds
    /\ (pc \in {"file_search", "file_search_judge", "compare", "save", "done", "raised"}
        /\ ~InTrace("not_found")) => InTrace("sleep3")
    /\ \A i \in 1..Len(trace) :
          (trace[i] = "file_search_run" /\ ~skip_judge) =>
              i < Len(trace) /\ trace[i + 1] = "sleep5"
    /\ \A i \in 1..Len(trace) :
          trace[i] = "file_search_judge" =>
              i > 2 /\ trace[i - 1] = "sleep5" /\ trace[i - 2] = "file_search_run"
    /\ pc = "file_search_judge" => trace[Len(trace)] = "sleep5"

\* a manual run that raised, then both waits and a returned file-search judge call
C21_Witness ==
    /\ pc = "done"
    /\ Len(trace) >= 5
    /\ SubSeq(trace, 1, 5) = <<"manual_run_raised", "sleep3", "file_search_run",
                               "sleep5", "file_search_judge">>

\* how many times x was recorded in the trace
TraceCount(x) == Len(SelectSeq(trace, LAMBDA y : y = x))

\* the manual stage, resp. the file-search stage, is over
ManualStageOver ==
    pc \in {"wait", "file_search", "file_search_judge", "compare", "save", "done", "raised"}
FileSearchStageOver == pc \in {"compare", "save", "done", "raised"}

\* what holds in every state of an evaluation for C22
C22_State ==
    /\ TraceCount("manual_judge") <= 1
    /\ TraceCount("file_search_judge") <= 1
    /\ (~skip_judge /\ ManualStageOver /\ InTrace("manual_run")) =>
           /\ TraceCount("manual_judge") = 1
           /\ Judged(manual_result) \/ InTrace("manual_display_raised")
    /\ (~skip_judge /\ FileSearchStageOver /\ InTrace("file_search_run")) =>
           /\ TraceCount("file_search_judge") = 1
           /\ Judged(file_search_result) \/ InTrace("file_search_display_raised")
    /\ Judged(manual_result) => InTrace("manual_judge")
    /\ Judged(file_search_result) => InTrace("file_search_judge")
    /\ skip_judge =>
           /\ j_class = "none" /\ j_pc = "idle" /\ events = << >>
           /\ ~InTrace("manual_judge") /\ ~InTrace("file_search_judge")
           /\ ~InTrace("sleep5")
           /\ ~Judged(manual_result) /\ ~Judged(file_search_result)

\* what holds of every step of an evaluation for C22: a result that is held
\* changes only by gaining its evaluation key (or by being dropped by the
\* except clause of its block), and a result that has its evaluation no longer
\* changes
C22_Step ==
    /\ Judged(manual_result) => manual_result' = manual_result
    /\ Judged(file_search_result) => file_search_result' = file_search_result
    /\ (IsDict(manual_result) /\ manual_result' # manual_result) =>
           \/ manual_result' = SetItem(manual_result, "evaluation", j_ret)
           \/ manual_result' = PyNone
    /\ (IsDict(file_search_result) /\ file_search_result' # file_search_result) =>
           \/ file_search_result' = SetItem(file_search_result, "evaluation", j_ret)
           \/ file_search_result' = PyNone

C22_WitnessSkip ==
    /\ pc = "done"
    /\ skip_judge
    /\ IsDict(manual_result) /\ IsDict(file_search_result)

\* a payload J alone, behind a tagged or an untagged fence, before a closing
\* fence, and wrapped in both
FenceForms(J) ==
    { J,
      JsonFence \o <<"\n">> \o J,
      Fence \o <<"\n">> \o J,
      J \o <<"\n">> \o Fence,
      JsonFence \o <<"\n">> \o J \o <<"\n">> \o Fence,
      Fence \o <<"\n">> \o J \o <<"\n">> \o Fence }

\* a model call of the running judge call has delivered the text t
Delivered(t) ==
    /\ j_class \in {"AIJudge", "LightRAGEvaluator"}
    /\ events # << >>
    /\ ~content.none
    /\ content.s = t

\* C23: for every valid JSON payload J, a response that is J alone, J behind a
\* leading fence (tagged or not), J before a closing fence, or J wrapped in
\* both is sanitized to a text that still holds all of J and that parses to the
\* value of J, in AIJudge.judge_response and in
\* LightRAGEvaluator.judge_response.
C23_FencesStrippedOnly ==
    \A b \in DictBodies : \A t \in FenceForms(Doc(b)) :
        Delivered(t) =>
            /\ Contains(response_text, Doc(b))
            /\ json_loads(response_text).ok
            /\ json_loads(response_text).value = DictOf(b)

\* the sleeps of the running judge call, in order
Sleeps == SelectSeq(events, LAMBDA x : x.e = "sleep")

\* C24: within one judge call the k-th sleep lasts 5 * 2^(k-1) seconds, and
\* the time slept in the call never exceeds 5 * (2^max_retries - 1) seconds,
\* for every max_retries >= 1 and every sequence of model outcomes.
C24_BackoffDoublesFromFive ==
    j_class \in {"AIJudge", "LightRAGEvaluator"} =>
        /\ \A k \in 1..Len(Sleeps) : Sleeps[k].d = 5 * Pow2(k - 1)
        /\ SleepTotal <= 5 * (Pow2(max_retries) - 1)

\* a call that slept 5, 10 and 20 seconds and has returned
C24_Witness ==
    /\ j_pc = "returned"
    /\ Len(Sleeps) = 3
    /\ SleepTotal = 35

\* a call of the evaluator that slept 5 and 10 seconds and has returned
C24_WitnessLight ==
    /\ j_class = "LightRAGEvaluator"
    /\ j_pc = "returned"
    /\ Len(Sleeps) = 2
    /\ SleepTotal = 15

(***************************************************************************)
(* Two judge_response calls on one object, interleaved.  retry_delay,      *)
(* attempt, max_retries, model and response_text are local variables of    *)
(* judge_response (ai_judge.py 96-111, evaluate_light.py 166-173): each    *)
(* call has its own, and the call that is not executing keeps its own      *)
(* while the other one runs.                                               *)
(***************************************************************************)
\* a judge whose retry_delay and attempt are attributes of the object, the same
\* for every call
switch_shared_retry_state ==
    /\ entry \in {"AIJudge", "LightRAGEvaluator"}
    /\ suspended' = Locals
    /\ j_class' = suspended.j_class
    /\ j_pc' = suspended.j_pc
    /\ model' = suspended.model
    /\ max_retries' = suspended.max_retries
    /\ content' = suspended.content
    /\ response_text' = suspended.response_text
    /\ events' = suspended.events
    /\ j_ret' = suspended.j_ret
    /\ UNCHANGED <<entry, attempt, retry_delay, evars, ovars, svars>>

\* the executing call is suspended and the other call goes on with its own
\* locals  (ai_judge.py 96-111, evaluate_light.py 166-173)
switch ==
    /\ entry \in {"AIJudge", "LightRAGEvaluator"}
    /\ suspended' = Locals
    /\ j_class' = suspended.j_class
    /\ j_pc' = suspended.j_pc
    /\ model' = suspended.model
    /\ max_retries' = suspended.max_retries
    /\ attempt' = suspended.attempt
    /\ retry_delay' = suspended.retry_delay
    /\ content' = suspended.content
    /\ response_text' = suspended.response_text
    /\ events' = suspended.events
    /\ j_ret' = suspended.j_ret
    /\ UNCHANGED <<entry, evars, ovars, svars>>

\* the outcomes of a model call tried in the interleaved calls
CallContents ==
    {[none |-> FALSE, s |-> t] : t \in {Doc("all4"), <<"S", "o", "r", "r", "y">>}}

NextCalls ==
    \/ \E mr \in 1..MaxRetriesArg :
          AIJudge_judge_response("judge-model", default_model("config-model", "None"), mr)
    \/ \E c \in CallContents : AIJudge_completion_returns(c)
    \/ \E err \in EvaluatorErrors : AIJudge_except_OpenAIError(err)
    \/ \E err \in EvaluatorErrors : AIJudge_except_Exception(err)
    \/ Light_judge_response
    \/ \E c \in CallContents : Light_generate_content_returns(c, MsgDecode0)
    \/ \E err \in EvaluatorErrors : Light_generate_content_raises(err)
    \/ switch

SpecCalls == InitJudge /\ [][NextCalls]_vars

\* the model calls, resp. the sleeps, a call with the locals L has made
CallsOf(L)  == SelectSeq(L.events, LAMBDA x : x.e = "call")
SleepsOf(L) == SelectSeq(L.events, LAMBDA x : x.e = "sleep")

\* the retry state of the call with the locals L is what its own model calls
\* and sleeps make it
OwnRetryState(L) ==
    L.j_class \in {"AIJudge", "LightRAGEvaluator"} =>
        /\ \A k \in 1..Len(SleepsOf(L)) : SleepsOf(L)[k].d = 5 * Pow2(k - 1)
        /\ Len(CallsOf(L)) <= L.max_retries
        /\ L.j_pc = "loop" =>
              /\ L.attempt = Len(CallsOf(L))
              /\ L.retry_delay = 5 * Pow2(Len(SleepsOf(L)))
              /\ L.attempt < L.max_retries

\* a step changes the locals of the call that is not executing only by
\* switching the two calls
C25_Step ==
    suspended' # suspended => (suspended' = Locals /\ Locals' = suspended)

\* C25: every judge_response call starts with attempt 0 and a delay of 5 s
\* whatever earlier or interleaved calls on the same object did, and the
\* failures, sleeps and doublings of one call never change the delay or the
\* attempts of the other: in each of two interleaved calls the attempt counter
\* is the number of its own model calls and the delay is 5 * 2^(its own sleeps).
C25_RetryStateIsPrivate ==
    [](OwnRetryState(Locals) /\ OwnRetryState(suspended)) /\ [][C25_Step]_vars

\* one call has slept twice and waits; the other started afterwards with
\* attempt 0, has slept once and is in its second attempt
C25_Witness ==
    /\ suspended.j_pc = "loop"
    /\ suspended.retry_delay = 20
    /\ suspended.attempt = 2
    /\ j_pc = "loop"
    /\ retry_delay = 10
    /\ attempt = 1

\* the first k retrieved chunks in rank order with the separator between them
RECURSIVE FirstChunksJoined(_)
FirstChunksJoined(k) ==
    IF k = 0 THEN << >>
    ELSE IF k = 1 THEN <<ChunkNames[1]>>
    ELSE FirstChunksJoined(k - 1) \o ChunkSeparator \o <<ChunkNames[k]>>

\* the chunks the run of a pipeline retrieved
Retrieved(rag_result) == rag_result.v["context"].v

\* C26: the context string submitted to the judge for either pipeline is made
\* of the first min(5, n) of the pipeline's n retrieved chunks, in retrieval
\* order, joined by the chunk separator: no chunk after the fifth and no
\* reordering reaches the judge.
C26_ContextIsFirstFiveChunks ==
    /\ pc = "manual_judge" =>
          /\ IsDict(manual_result)
          /\ context_str = FirstChunksJoined(Min(5, Len(Retrieved(manual_result))))
          /\ ~Contains(context_str, <<ChunkNames[6]>>)
    /\ pc = "file_search_judge" =>
          /\ IsDict(file_search_result)
          /\ context_str = FirstChunksJoined(Min(5, Len(Retrieved(file_search_result))))
          /\ ~Contains(context_str, <<ChunkNames[6]>>)

\* the file-search run retrieved more than five chunks and its judge call is
\* under way with the first five
C26_Witness ==
    /\ pc = "file_search_judge"
    /\ Len(Retrieved(file_search_result)) > 5
    /\ context_str = FirstChunksJoined(5)
    /\ Calls # << >>

\* the manual run retrieved three chunks and its judge call is under way
C26_WitnessManual ==
    /\ pc = "manual_judge"
    /\ Len(Retrieved(manual_result)) = 3
    /\ context_str = FirstChunksJoined(3)

\* the report of the evaluation has been built
ReportBuilt == IsDict(result)

\* C27: a pipeline result is absent from the QuestionReport only when the run
\* of that pipeline raised: if run_manual_rag (resp. run_file_search_rag)
\* returned a result, manual_rag (resp. file_search_rag) of the report is that
\* result, whatever the judge returned for it and whatever happened while the
\* evaluation was displayed.
C27_ResultAbsentOnlyWhenRunRaised ==
    ReportBuilt =>
        /\ InTrace("manual_run") =>
              /\ IsDict(result.v["manual_rag"])
              /\ result.v["manual_rag"].v["answer"] = PyStr(<<"resposta manual">>)
        /\ InTrace("file_search_run") =>
              /\ IsDict(result.v["file_search_rag"])
              /\ result.v["file_search_rag"].v["answer"] = PyStr(<<"resposta file search">>)

\* C28: a judge call never sleeps after its last model call: every sleep is
\* followed by another model call, so a call that has returned made at least
\* one more model call than it slept; the sleeps are at most max_retries - 1
\* and the model calls at most max_retries.
C28_NoSleepAfterLastCall ==
    j_class \in {"AIJudge", "LightRAGEvaluator"} =>
        /\ Len(Calls) <= max_retries
        /\ Len(Sleeps) <= max_retries - 1
        /\ \A i \in 1..Len(events) :
              (events[i].e = "sleep" /\ i < Len(events)) => events[i + 1].e = "call"
        /\ j_pc = "returned" =>
              /\ events # << >>
              /\ events[Len(events)].e = "call"
              /\ Len(Sleeps) <= Len(Calls) - 1

\* a call that slept after each model call but the last, which used up the
\* attempts
C28_Witness ==
    /\ j_pc = "returned"
    /\ Len(Calls) = max_retries
    /\ Len(Sleeps) = max_retries - 1
    /\ Len(Sleeps) >= 2
    /\ events[Len(events)].e = "call"

\* the chunks that were joined into the context string of the judge call
Joined(rag_result) == PySlice(Retrieved(rag_result), 0, 5)

\* C29: the chunk count print_judge_info derives from the context string (the
\* occurrences of the separator plus one) is the number of chunks that were
\* joined into the context string submitted to the judge, for every chunk list
\* of length 0..5 a pipeline produces.
C29_DiagnosticChunkCount ==
    /\ (pc = "manual_judge" /\ Len(Retrieved(manual_result)) <= 5) =>
          print_judge_info(context_str) = Len(Joined(manual_result))
    /\ (pc = "file_search_judge" /\ Len(Retrieved(file_search_result)) <= 5) =>
          print_judge_info(context_str) = Len(Joined(file_search_result))

(***************************************************************************)
(* file_search_rag.py: the stores of the file-search service.  A store is  *)
(* named by its place in the list of the service; the service accepts      *)
(* several stores with one display name.                                   *)
(***************************************************************************)
\* most stores the service is let to hold, and most questions asked
MaxStores == 3
MaxAsks == 2

\* the display names used: the dataset of the configuration and another one
DisplayNames == {"direito_constitucional", "outro"}

\* find_store_by_display_name  (file_search_rag.py 37-47): the first store of
\* the listing with that display name; None when there is none and when the
\* listing raises
find_store_by_display_name(display_name, list_raises) ==
    IF list_raises THEN NoStore
    ELSE IF \E i \in 1..Len(stores) : stores[i] = display_name
    THEN CHOOSE i \in 1..Len(stores) :
            /\ stores[i] = display_name
            /\ \A j \in 1..(i - 1) : stores[j] # display_name
    ELSE NoStore

\* the body of create_or_get_store  (file_search_rag.py 49-62): the store
\* found, else a store created with that display name
get_or_create(store_name, list_raises) ==
    LET found == find_store_by_display_name(store_name, list_raises)
    IN  IF found # NoStore
        THEN /\ store' = found
             /\ UNCHANGED stores
        ELSE /\ Len(stores) < MaxStores
             /\ stores' = Append(stores, store_name)
             /\ store' = Len(stores')

\* create_or_get_store(store_name)  (file_search_rag.py 49-62)
create_or_get_store(store_name, list_raises) ==
    /\ entry = "file_search_rag"
    /\ get_or_create(store_name, list_raises)
    /\ UNCHANGED <<entry, jvars, evars, ovars, cvars, asked>>

\* ask_question(query, store_name)  (file_search_rag.py 101-150): the store is
\* looked up or created, and generate_content is given its name
ask_question(store_name, list_raises) ==
    /\ entry = "file_search_rag"
    /\ Len(asked) < MaxAsks
    /\ get_or_create(store_name, list_raises)
    /\ asked' = Append(asked, store')
    /\ UNCHANGED <<entry, jvars, evars, ovars, cvars>>

\* the service holds no store, or one
InitStore ==
    /\ entry = "file_search_rag"
    /\ JudgeIdle
    /\ NoOtherCall
    /\ EvaluatorIdle
    /\ OutputsEmpty
    /\ stores \in {<< >>} \cup {<<n>> : n \in DisplayNames}
    /\ store = NoStore
    /\ asked = << >>

NextStore ==
    \/ \E n \in DisplayNames, list_raises \in BOOLEAN : create_or_get_store(n, list_raises)
    \/ \E n \in DisplayNames, list_raises \in BOOLEAN : ask_question(n, list_raises)

SpecStore == InitStore /\ [][NextStore]_vars

\* the stores of the service with the display name n
StoresNamed(n) == {i \in 1..Len(stores) : stores[i] = n}

\* C30: create_or_get_store never creates a duplicate store: after any
\* sequence of create_or_get_store and ask_question calls (calls during which
\* the listing of the stores fails included) at most one store with a given
\* display name exists.
C30_NoDuplicateStore ==
    \A n \in DisplayNames : Cardinality(StoresNamed(n)) <= 1

====
